---- MODULE Spec2Model ----
(***************************************************************************)
(* A model of the Apprentice language front end: the scanner               *)
(* (src/src/scanner.rs), the recursive-descent parser (src/src/parser.rs)  *)
(* and the tree-walking interpreter (src/src/interpreter.rs).              *)
(*                                                                         *)
(* Each stage is a state machine of its own with its own specification:    *)
(*   SpecScan    one step per call of Scanner::scan_token, then the Eof    *)
(*   SpecParse   one step per call of Parser::declaration, then the check  *)
(*               of parse() after the loop                                 *)
(*   SpecInterp  one step per call of Interpreter::execute                 *)
(* A Rust panic (index out of bounds, unwrap of None/Err, assert!, todo!)  *)
(* is the control state "panic": the call never returns a value.           *)
(***************************************************************************)
EXTENDS Integers, Sequences, FiniteSets, TLC

VARIABLES
    source,      \* Scanner.source: the input, a sequence of characters
    tokens,      \* Scanner.tokens
    err,         \* Scanner.err: <<>> is None, <<e>> is Some(e)
    start,       \* Scanner.start
    current,     \* Scanner.current
    line,        \* Scanner.line
    column,      \* Scanner.column
    s_pc,        \* where scan() is: "scanning", "done" (returned), "panic", "idle"
    p_tokens,    \* Parser.tokens
    p_current,   \* Parser.current
    statements,  \* the local `statements` of Parser::parse
    p_err,       \* the SyntaxError parse() returned, NoSyntaxError before
    p_pc,        \* where parse() is: "parsing", "ok", "err", "panic", "idle"
    stmts,       \* the program handed to interpret()
    i_next,      \* how many statements interpret() has executed successfully
    env,         \* Interpreter.env.values: name -> Option<Value>
    output,      \* the lines println! has written
    i_err,       \* the error interpret() returned, NoRuntimeError before
    log,         \* history: one entry per call of execute
    i_pc         \* where interpret() is: "running", "ok", "err", "panic", "idle"

scan_vars == <<source, tokens, err, start, current, line, column, s_pc>>

parse_vars == <<p_tokens, p_current, statements, p_err, p_pc>>

interp_vars == <<stmts, i_next, env, output, i_err, log, i_pc>>

vars == <<scan_vars, parse_vars, interp_vars>>

\* ------------------------------------------------------------------ bounds

MaxSrcLen == 2     \* sources over the whole Alphabet

MaxTextLen == 4    \* sources over TextAlphabet

MaxTokens == 4     \* tokens before the Eof token

MaxStmts == 3      \* statements of a program

\* ------------------------------------------------------- Option<T> values

None == <<>>

Some(x) == <<x>>

\* `let r = val; F(r)`: val is computed once and F reads the value.
Bind(val, F(_)) == CHOOSE out \in {F(r) : r \in {val}} : TRUE

\* ---------------------------------------------------------------- scanner

NUL == "NUL"   \* the '\0' that peek and peek_next answer at end of input

Digits == {"0", "1", "2", "3", "4", "5", "6", "7", "8", "9"}

\* char::is_ascii_digit
is_ascii_digit(c) == c \in Digits

\* The characters sources are drawn from: every operator and punctuation
\* character, the white space the scanner knows, the quote, the backslash,
\* two digits, three letters and one character that belongs to no lexeme.
Alphabet ==
    {"(", ")", "{", "}", "[", "]", ",", ".", "-", "+", ";", "*",
     "!", "=", "<", ">", "/", " ", "\n", "\"", "\\",
     "0", "1", "o", "r", "x", "@"}

RECURSIVE SeqsUpTo(_, _)
SeqsUpTo(S, n) ==
    IF n = 0 THEN {<<>>}
    ELSE LET shorter == SeqsUpTo(S, n - 1)
         IN  shorter \cup {Append(s, c) : s \in shorter, c \in S}

\* A smaller set of characters for the longer sources: comments, strings
\* over several lines, numbers with a fraction.
TextAlphabet == {"/", "\"", "\n", "=", ".", "1", "x", "+"}

Sources == SeqsUpTo(Alphabet, MaxSrcLen) \cup SeqsUpTo(TextAlphabet, MaxTextLen)

\* Scanner.keywords (Scanner::default)
keywords ==
    {<<<<"a", "n", "d">>, "And">>,
     <<<<"c", "l", "a", "s", "s">>, "Class">>,
     <<<<"e", "l", "s", "e">>, "Else">>,
     <<<<"f", "a", "l", "s", "e">>, "False">>,
     <<<<"f", "o", "r">>, "For">>,
     <<<<"f", "u", "n", "c">>, "Func">>,
     <<<<"i", "f">>, "If">>,
     <<<<"n", "u", "l", "l">>, "Null">>,
     <<<<"o", "r">>, "Or">>,
     <<<<"p", "r", "i", "n", "t">>, "Print">>,
     <<<<"r", "e", "t", "u", "r", "n">>, "Return">>,
     <<<<"t", "h", "i", "s">>, "This">>,
     <<<<"t", "r", "u", "e">>, "True">>,
     <<<<"v", "a", "r">>, "Var">>,
     <<<<"w", "h", "i", "l", "e">>, "While">>}

\* The scanner's fields as one record, threaded through the helpers.
ScannerFields ==
    [tokens |-> tokens, err |-> err, start |-> start, current |-> current,
     line |-> line, column |-> column, panicked |-> FALSE]

\* Scanner::is_at_end
Scanner_is_at_end(s) == s.current >= Len(source)

\* Scanner::peek
Scanner_peek(s) == IF Scanner_is_at_end(s) THEN NUL ELSE source[s.current + 1]

\* a lookahead that reads the next character instead of the one after it
peek_next_too_near(s) == Scanner_peek(s)

\* Scanner::peek_next
peek_next(s) ==
    IF s.current + 1 >= Len(source) THEN NUL ELSE source[s.current + 2]

\* Scanner::advance: the cursor moves first, then source[current - 1] is
\* read; past the end that index panics.
Scanner_advance(s) ==
    [s EXCEPT !.current = @ + 1,
              !.column = @ + 1,
              !.panicked = @ \/ s.current + 1 > Len(source)]

\* the character Scanner::advance returns
advanced_char(s) == source[s.current + 1]

\* source[from..to] of Rust: the characters at 0-based from .. to - 1
Slice(from, to) == SubSeq(source, from + 1, to)

\* Scanner::add_token_literal
add_token_literal(s, token_type, literal) ==
    [s EXCEPT !.tokens = Append(@,
        [token_type |-> token_type,
         lexeme |-> Slice(s.start, s.current),
         literal |-> literal,
         line |-> s.line,
         column |-> s.column])]

\* Scanner::add_token
add_token(s, token_type) == add_token_literal(s, token_type, None)

\* Scanner::matches: the answer
matches_result(s, c) ==
    IF Scanner_is_at_end(s) THEN TRUE ELSE source[s.current + 1] = c

\* Scanner::matches: the scanner after the call
matches_state(s, c) ==
    IF Scanner_is_at_end(s) THEN s
    ELSE IF source[s.current + 1] # c THEN s
    ELSE [s EXCEPT !.current = @ + 1, !.column = @ + 1]

\* the loop of the '/' arm: while self.peek() != '\n' { self.advance(); }
RECURSIVE skip_comment(_)
skip_comment(s) ==
    IF s.panicked \/ Scanner_peek(s) = "\n" THEN s
    ELSE skip_comment(Scanner_advance(s))

\* the loop of Scanner::string
RECURSIVE string_loop(_)
string_loop(s) ==
    IF s.panicked \/ ~(Scanner_peek(s) # "\"" /\ ~Scanner_is_at_end(s)) THEN s
    ELSE IF Scanner_peek(s) = "\\" THEN [s EXCEPT !.panicked = TRUE]  \* todo!()
    ELSE LET s1 == IF Scanner_peek(s) = "\n"
                   THEN [s EXCEPT !.line = @ + 1] ELSE s
         IN  string_loop(Scanner_advance(s1))

\* Scanner::string
string(s) ==
    LET s1 == string_loop(s)
        s2 == IF Scanner_is_at_end(s1)
              THEN [s1 EXCEPT !.err = Some(
                       [what |-> "String needs to be closed", ch |-> NUL,
                        line |-> s1.line, column |-> s1.column])]
              ELSE s1
    IN  IF s1.panicked THEN s1
        ELSE IF Scanner_peek(s2) # "\"" THEN [s2 EXCEPT !.panicked = TRUE] \* assert!
        ELSE LET s3 == Scanner_advance(s2)
             IN  add_token_literal(s3, "String",
                    Some(<<"Str", Slice(s3.start + 1, s3.current - 1)>>))

\* the loops of Scanner::number: while self.peek().is_ascii_digit() { advance }
RECURSIVE digit_loop(_)
digit_loop(s) ==
    IF is_ascii_digit(Scanner_peek(s)) THEN digit_loop(Scanner_advance(s)) ELSE s

\* Literal::Int(u64): a value is held as U64_LIMBS limbs of base LIMB_BASE,
\* most significant first, since 2^64 - 1 is past the integers of the checker.
LIMB_BASE == 10000

U64_LIMBS == 5

\* u64::MAX = 18446744073709551615
U64_MAX == <<1844, 6744, 737, 955, 1615>>

\* char::to_digit(10) on an ASCII digit
to_digit(c) ==
    CASE c = "0" -> 0 [] c = "1" -> 1 [] c = "2" -> 2 [] c = "3" -> 3
      [] c = "4" -> 4 [] c = "5" -> 5 [] c = "6" -> 6 [] c = "7" -> 7
      [] c = "8" -> 8 [] c = "9" -> 9

\* a <= b on limb sequences of the same length
RECURSIVE limbs_le(_, _)
limbs_le(a, b) ==
    IF Len(a) = 0 THEN TRUE
    ELSE IF a[1] # b[1] THEN a[1] < b[1]
    ELSE limbs_le(Tail(a), Tail(b))

\* v * 10 + d from the least significant limb up; carry is what leaves the
\* most significant limb.
RECURSIVE mul10_add(_, _, _)
mul10_add(v, k, carry) ==
    IF k = 0 THEN [limbs |-> v, carry |-> carry]
    ELSE mul10_add([v EXCEPT ![k] = (v[k] * 10 + carry) % LIMB_BASE],
                   k - 1, (v[k] * 10 + carry) \div LIMB_BASE)

\* str::parse::<u64> on a run of digits, from result: result = result * 10 + digit
\* with checked_mul and checked_add; None stands for Err(PosOverflow).
RECURSIVE from_str_radix(_, _)
from_str_radix(digits, result) ==
    IF Len(digits) = 0 THEN Some(result)
    ELSE \* the digit enters as the carry into the least significant limb
         LET next == mul10_add(result, U64_LIMBS, to_digit(digits[1]))
         IN  IF next.carry # 0 \/ ~limbs_le(next.limbs, U64_MAX) THEN None
             ELSE from_str_radix(Tail(digits), next.limbs)

\* Scanner::number. The Float literal keeps the digits of the lexeme; the Int
\* literal is the parsed u64, and the unwrap() of a failed parse panics.
number(s) ==
    LET s1 == digit_loop(s)
    IN  IF Scanner_peek(s1) = "." /\ is_ascii_digit(peek_next(s1))
        THEN LET s2 == digit_loop(Scanner_advance(s1))
             IN  add_token_literal(s2, "Float",
                    Some(<<"Float", Slice(s2.start, s2.current)>>))
        ELSE LET val == from_str_radix(Slice(s1.start, s1.current),
                                       [k \in 1..U64_LIMBS |-> 0])
             IN  IF val = None THEN [s1 EXCEPT !.panicked = TRUE]
                 ELSE add_token_literal(s1, "Int", Some(<<"Int", val[1]>>))

\* the one-or-two character arms: matches('='), then add_token of either kind
one_or_two(s, two, one) ==
    add_token(matches_state(s, "="), IF matches_result(s, "=") THEN two ELSE one)

\* Scanner::scan_token, after `self.start = self.current` of scan_tokens
scan_token(s0) ==
    LET c == advanced_char(s0)
        s == Scanner_advance(s0)
    IN  CASE c = "(" -> add_token(s, "LeftParen")
          [] c = ")" -> add_token(s, "RightParen")
          [] c = "{" -> add_token(s, "LeftBrace")
          [] c = "}" -> add_token(s, "RightBrace")
          [] c = "[" -> add_token(s, "LeftBracket")
          [] c = "]" -> add_token(s, "RightBracket")
          [] c = "," -> add_token(s, "Comma")
          [] c = "." -> add_token(s, "Dot")
          [] c = "-" -> add_token(s, "Minus")
          [] c = "+" -> add_token(s, "Plus")
          [] c = ";" -> add_token(s, "Semicolon")
          [] c = "*" -> add_token(s, "Star")
          [] c = "!" -> one_or_two(s, "BangEqual", "Bang")
          [] c = "=" -> one_or_two(s, "EqualEqual", "Equal")
          [] c = "<" -> one_or_two(s, "LessEqual", "Less")
          [] c = ">" -> one_or_two(s, "GreaterEqual", "Greater")
          [] c = "/" -> IF matches_result(s, "/")
                        THEN skip_comment(matches_state(s, "/"))
                        ELSE add_token(s, "Slash")
          [] c \in {" ", "\r", "\t"} -> s
          [] c = "\n" -> [s EXCEPT !.line = @ + 1, !.column = 0]
          [] c = "\"" -> string(s)
          [] OTHER -> IF is_ascii_digit(c) THEN number(s)
                      ELSE [s EXCEPT !.err = Some(
                               [what |-> "Invalid character found", ch |-> c,
                                line |-> s.line, column |-> s.column])]

\* The other stages, not running.
ScanIdle ==
    /\ source = <<>>
    /\ tokens = <<>>
    /\ err = None
    /\ start = 0
    /\ current = 0
    /\ line = 1
    /\ column = -1
    /\ s_pc = "idle"

NoSyntaxError ==
    [kind |-> "None", token_type |-> "None", expected |-> "None",
     line |-> 0, column |-> 0]

ParseIdle ==
    /\ p_tokens = <<>>
    /\ p_current = 0
    /\ statements = <<>>
    /\ p_err = NoSyntaxError
    /\ p_pc = "idle"

\* an error String that does not name a position
RuntimeErrorWithoutPosition(what, name, ln, col) ==
    [what |-> what, name |-> name, line |-> 0, column |-> 0]

\* the String errors of the interpreter, all with the same fields
RuntimeError(what, name, ln, col) ==
    [what |-> what, name |-> name, line |-> ln, column |-> col]

NoRuntimeError == RuntimeError("None", <<>>, 0, 0)

\* Environment::default()
EmptyEnv == [name \in {} |-> None]

InterpIdle ==
    /\ stmts = <<>>
    /\ i_next = 0
    /\ env = EmptyEnv
    /\ output = <<>>
    /\ i_err = NoRuntimeError
    /\ log = <<>>
    /\ i_pc = "idle"

\* The state of Scanner::default() with the input stored.
ScanInit ==
    /\ source \in Sources
    /\ tokens = <<>>
    /\ err = None
    /\ start = 0
    /\ current = 0
    /\ line = 1
    /\ column = -1
    /\ s_pc = "scanning"
    /\ ParseIdle
    /\ InterpIdle

\* One turn of the loop of Scanner::scan_tokens.
ScanToken ==
    /\ s_pc = "scanning"
    /\ ~Scanner_is_at_end(ScannerFields)
    /\ \E s \in {scan_token([ScannerFields EXCEPT !.start = current])} :
           /\ tokens' = s.tokens
           /\ err' = s.err
           /\ start' = s.start
           /\ current' = s.current
           /\ line' = s.line
           /\ column' = s.column
           /\ s_pc' = IF s.panicked THEN "panic" ELSE "scanning"
    /\ UNCHANGED <<source, parse_vars, interp_vars>>

\* scan_tokens returning at the end of input without the push of the Eof token
ScanEofWithoutToken ==
    /\ s_pc = "scanning"
    /\ Scanner_is_at_end(ScannerFields)
    /\ s_pc' = "done"
    /\ UNCHANGED <<source, tokens, err, start, current, line, column,
                   parse_vars, interp_vars>>

\* The end of Scanner::scan_tokens: the Eof token; scan() then returns.
ScanEof ==
    /\ s_pc = "scanning"
    /\ Scanner_is_at_end(ScannerFields)
    /\ tokens' = Append(tokens,
          [token_type |-> "Eof", lexeme |-> <<>>, literal |-> None,
           line |-> line, column |-> column])
    /\ s_pc' = "done"
    /\ UNCHANGED <<source, err, start, current, line, column, parse_vars, interp_vars>>

ScanNext == ScanToken \/ ScanEof

SpecScan == ScanInit /\ [][ScanNext]_vars

\* scan(): what the caller gets once scan_tokens has returned
scan_is_ok == s_pc = "done" /\ err = None

scan_is_err == s_pc = "done" /\ err # None

\* ----------------------------------------------------------------- parser

\* A token as the parser reads it (src/src/token.rs); its position is set
\* where the token sequence is built.
Tok(token_type, lexeme, literal) ==
    [token_type |-> token_type, lexeme |-> lexeme, literal |-> literal,
     line |-> 1, column |-> 0]

EofTok == Tok("Eof", <<>>, None)

\* The tokens parser inputs are drawn from.
ParseAlphabet ==
    {Tok("Var", <<"v", "a", "r">>, None),
     Tok("Print", <<"p", "r", "i", "n", "t">>, None),
     Tok("Identifier", <<"a">>, Some(<<"Identifier", <<"a">>>>)),
     Tok("Number", <<"1">>, Some(<<"Num", 1>>)),
     Tok("Equal", <<"=">>, None),
     Tok("Minus", <<"-">>, None),
     Tok("Star", <<"*">>, None),
     Tok("LeftParen", <<"(">>, None),
     Tok("RightParen", <<")">>, None),
     Tok("Semicolon", <<";">>, None)}

\* A token sequence as scan() builds it: the tokens, then one Eof; the i-th
\* token stands at column i - 1 of line 1.
Positioned(ts) ==
    [i \in 1..(Len(ts) + 1) |->
        [(IF i <= Len(ts) THEN ts[i] ELSE EofTok) EXCEPT !.column = i - 1]]

TokenSeqs == {Positioned(ts) : ts \in SeqsUpTo(ParseAlphabet, MaxTokens)}

\* SyntaxError values, all with the same fields
SyntaxError(kind, token_type, expected, ln, col) ==
    [kind |-> kind, token_type |-> token_type, expected |-> expected,
     line |-> ln, column |-> col]

\* Result<Expr, SyntaxError> or Result<Stmt, SyntaxError> with the cursor the
\* parser is left at; "panic" when the call does not return.
POk(node, cur) == [kind |-> "ok", node |-> node, err |-> NoSyntaxError, cur |-> cur]

PErr(e, cur) == [kind |-> "err", node |-> <<>>, err |-> e, cur |-> cur]

PPanic(cur) == [kind |-> "panic", node |-> <<>>, err |-> NoSyntaxError, cur |-> cur]

\* Parser::peek
Parser_peek(cur) == p_tokens[cur + 1]

\* Parser::previous
previous(cur) == p_tokens[cur]

\* Parser::is_at_end
Parser_is_at_end(cur) == Parser_peek(cur).token_type = "Eof"

\* Parser::check
check(cur, t) ==
    IF Parser_is_at_end(cur) THEN FALSE ELSE Parser_peek(cur).token_type = t

\* Parser::advance: the cursor after the call
Parser_advance(cur) == IF ~Parser_is_at_end(cur) THEN cur + 1 ELSE cur

\* Parser::matches: the answer is check(cur, t); this is the cursor after
Parser_matches(cur, t) == IF check(cur, t) THEN Parser_advance(cur) ELSE cur

\* Parser::match_one_of: the answer
match_one_of(cur, types) == \E t \in types : check(cur, t)

\* Parser::match_one_of: the cursor after the call
match_one_of_cur(cur, types) ==
    IF match_one_of(cur, types) THEN Parser_advance(cur) ELSE cur

\* Parser::consume
consume(cur, t) ==
    IF check(cur, t) THEN POk(Parser_peek(cur), Parser_advance(cur))
    ELSE PErr(SyntaxError("TokenMismatch", Parser_peek(cur).token_type, t,
                          Parser_peek(cur).line, Parser_peek(cur).column), cur)

\* Parser::op_token_to_binop
op_token_to_binop(op) ==
    LET BinOp(b) == [ok |-> TRUE,
                     op |-> [b_type |-> b, line |-> op.line, column |-> op.column]]
    IN  CASE op.token_type = "EqualEqual" -> BinOp("EqualEqual")
          [] op.token_type = "BangEqual" -> BinOp("NotEqual")
          [] op.token_type = "Less" -> BinOp("Less")
          [] op.token_type = "LessEqual" -> BinOp("LessEqual")
          [] op.token_type = "Greater" -> BinOp("Greater")
          [] op.token_type = "GreaterEqual" -> BinOp("GreaterEqual")
          [] op.token_type = "Plus" -> BinOp("Add")
          [] op.token_type = "Minus" -> BinOp("Sub")
          [] op.token_type = "Star" -> BinOp("Mult")
          [] op.token_type = "Slash" -> BinOp("Div")
          [] OTHER -> [ok |-> FALSE,
                       op |-> SyntaxError("InvalidTokenInBinaryOp", op.token_type,
                                          "None", op.line, op.column)]

\* Parser::op_token_to_uniop
op_token_to_uniop(op) ==
    LET UniOp(u) == [ok |-> TRUE,
                     op |-> [u_type |-> u, line |-> op.line, column |-> op.column]]
    IN  CASE op.token_type = "Bang" -> UniOp("Bang")
          [] op.token_type = "Minus" -> UniOp("Minus")
          [] OTHER -> [ok |-> FALSE,
                       op |-> SyntaxError("InvalidTokenInUnaryOp", op.token_type,
                                          "None", op.line, op.column)]

\* Symbol
Symbol(name, ln, col) == [name |-> name, line |-> ln, column |-> col]

\* fold_binary with the accumulated expression as the right operand
fold_binary_right(expr, cur, right) ==
    LET binop_maybe == op_token_to_binop(previous(Parser_advance(cur)))
    IN  IF right.kind # "ok" THEN right
        ELSE IF binop_maybe.ok
             THEN POk(<<"Binary", right.node, binop_maybe.op, expr>>, right.cur)
             ELSE PErr(binop_maybe.op, right.cur)

\* One turn of the loop shared by equality, comparison, term and factor, once
\* match_one_of has answered true at `cur`: the operator is previous(), the
\* right operand `right`, the node Binary(left, binop, right).
fold_binary(expr, cur, right) ==
    LET binop_maybe == op_token_to_binop(previous(Parser_advance(cur)))
    IN  IF right.kind # "ok" THEN right
        ELSE IF binop_maybe.ok
             THEN POk(<<"Binary", expr, binop_maybe.op, right.node>>, right.cur)
             ELSE PErr(binop_maybe.op, right.cur)

\* the rest of a level once its first operand is parsed: `let mut expr =
\* self.next_level()?;` then the loop
then_loop(first, Loop(_, _)) ==
    IF first.kind = "ok" THEN Loop(first.node, first.cur) ELSE first

RECURSIVE expression(_), assignment(_), equality(_), equality_loop(_, _),
          comparison(_), comparison_loop(_, _), term(_), term_loop(_, _),
          factor(_), factor_loop(_, _), unary(_), primary(_)

\* Parser::primary
primary(cur) ==
    LET prev == Parser_peek(cur)   \* previous() once matches has advanced
        next == Parser_advance(cur)
    IN  CASE check(cur, "False") -> POk(<<"Literal", <<"False">>>>, next)
          [] check(cur, "True") -> POk(<<"Literal", <<"True">>>>, next)
          [] check(cur, "Null") -> POk(<<"Literal", <<"Null">>>>, next)
          [] check(cur, "Number") ->
                IF prev.literal # None /\ prev.literal[1][1] = "Num"
                THEN POk(<<"Literal", <<"Number", prev.literal[1][2]>>>>, next)
                ELSE PPanic(next)
          [] check(cur, "String") ->
                IF prev.literal # None /\ prev.literal[1][1] = "Str"
                THEN POk(<<"Literal", <<"String", prev.literal[1][2]>>>>, next)
                ELSE PPanic(next)
          [] check(cur, "Identifier") ->
                IF prev.literal # None /\ prev.literal[1][1] = "Identifier"
                THEN POk(<<"Variable",
                           Symbol(prev.literal[1][2], prev.line, prev.column)>>, next)
                ELSE PPanic(next)
          [] check(cur, "LeftParen") ->
                Bind(expression(next), LAMBDA expr :
                    LET close == consume(expr.cur, "RightParen")
                    IN  IF expr.kind # "ok" THEN expr
                        ELSE IF close.kind # "ok" THEN close
                        ELSE POk(<<"Grouping", expr.node>>, close.cur))
          [] OTHER ->
                PErr(SyntaxError("ExpectedExpression", Parser_peek(cur).token_type,
                        "None", Parser_peek(cur).line, Parser_peek(cur).column), cur)

\* Parser::unary
unary(cur) ==
    IF match_one_of(cur, {"Minus", "Bang"})
    THEN Bind(unary(Parser_advance(cur)), LAMBDA right :
            LET operator == previous(Parser_advance(cur))
                uniop_maybe == op_token_to_uniop(operator)
            IN  IF right.kind # "ok" THEN right
                ELSE IF uniop_maybe.ok
                     THEN POk(<<"Unary", uniop_maybe.op, right.node>>, right.cur)
                     ELSE PErr(uniop_maybe.op, right.cur))
    ELSE primary(cur)

\* the while loop of Parser::factor
factor_loop(expr, cur) ==
    IF match_one_of(cur, {"Star", "Slash"})
    THEN Bind(fold_binary(expr, cur, unary(Parser_advance(cur))), LAMBDA r :
            IF r.kind = "ok" THEN factor_loop(r.node, r.cur) ELSE r)
    ELSE POk(expr, cur)

\* Parser::factor
factor(cur) ==
    Bind(unary(cur), LAMBDA first : then_loop(first, factor_loop))

\* the while loop of Parser::term
term_loop(expr, cur) ==
    IF match_one_of(cur, {"Plus", "Minus"})
    THEN Bind(fold_binary(expr, cur, factor(Parser_advance(cur))), LAMBDA r :
            IF r.kind = "ok" THEN term_loop(r.node, r.cur) ELSE r)
    ELSE POk(expr, cur)

\* Parser::term
term(cur) ==
    Bind(factor(cur), LAMBDA first : then_loop(first, term_loop))

\* the while loop of Parser::comparison
comparison_loop(expr, cur) ==
    IF match_one_of(cur, {"Less", "LessEqual", "Greater", "GreaterEqual"})
    THEN Bind(fold_binary(expr, cur, term(Parser_advance(cur))), LAMBDA r :
            IF r.kind = "ok" THEN comparison_loop(r.node, r.cur) ELSE r)
    ELSE POk(expr, cur)

\* Parser::comparison
comparison(cur) ==
    Bind(term(cur), LAMBDA first : then_loop(first, comparison_loop))

\* the while loop of Parser::equality
equality_loop(expr, cur) ==
    IF match_one_of(cur, {"EqualEqual", "BangEqual"})
    THEN Bind(fold_binary(expr, cur, comparison(Parser_advance(cur))), LAMBDA r :
            IF r.kind = "ok" THEN equality_loop(r.node, r.cur) ELSE r)
    ELSE POk(expr, cur)

\* Parser::equality
equality(cur) ==
    Bind(comparison(cur), LAMBDA first : then_loop(first, equality_loop))

\* Parser::assignment
assignment(cur) ==
    Bind(equality(cur), LAMBDA expr :
        IF expr.kind # "ok" THEN expr
        ELSE IF check(expr.cur, "Equal")
        THEN Bind(assignment(Parser_advance(expr.cur)), LAMBDA value :
                LET equals == Parser_peek(expr.cur)
                IN  IF value.kind # "ok" THEN value
                    ELSE IF expr.node[1] = "Variable"
                    THEN POk(<<"Assignment", expr.node[2], value.node>>, value.cur)
                    ELSE PErr(SyntaxError("InvalidAssignment", "None", "None",
                                          equals.line, equals.column), value.cur))
        ELSE expr)

\* Parser::expression
expression(cur) == assignment(cur)

\* Parser::print_statement and Parser::expression_statement: the expression,
\* then consume(Semicolon)?, then val.unwrap()
statement_of(stmt_kind, cur) ==
    Bind(expression(cur), LAMBDA val :
        LET semi == consume(val.cur, "Semicolon")
        IN  IF val.kind = "panic" THEN val
            ELSE IF semi.kind # "ok" THEN semi
            ELSE IF val.kind # "ok" THEN PPanic(semi.cur)
            ELSE POk(<<stmt_kind, val.node>>, semi.cur))

\* Parser::print_statement
print_statement(cur) == statement_of("Print", cur)

\* Parser::expression_statement
expression_statement(cur) == statement_of("Expression", cur)

\* Parser::statement
statement(cur) ==
    IF check(cur, "Print") THEN print_statement(Parser_advance(cur))
    ELSE expression_statement(cur)

\* Parser::var_declaration: the result of consume(Semicolon) is dropped
var_declaration(cur) ==
    LET name == consume(cur, "Identifier")
        has_init == name.kind = "ok" /\ check(name.cur, "Equal")
    IN  Bind(IF has_init THEN expression(Parser_advance(name.cur))
             ELSE POk(<<>>, name.cur), LAMBDA init :
            LET after == IF init.kind = "ok"
                         THEN Parser_matches(init.cur, "Semicolon") ELSE init.cur
            IN  IF name.kind # "ok" THEN name
                ELSE IF init.kind # "ok" THEN init
                ELSE POk(<<"VarDeclaration",
                           Symbol(name.node.lexeme, name.node.line, name.node.column),
                           IF has_init THEN Some(init.node) ELSE None>>, after))

\* Parser::declaration with the cursor put back where the call found it
declaration_rewinding(cur) ==
    LET r == IF check(cur, "Var") THEN var_declaration(Parser_advance(cur))
             ELSE statement(cur)
    IN  [r EXCEPT !.cur = cur]

\* Parser::declaration
declaration(cur) ==
    IF check(cur, "Var") THEN var_declaration(Parser_advance(cur))
    ELSE statement(cur)

\* parse(tokens): the parser as constructed
ParseInit ==
    /\ p_tokens \in TokenSeqs
    /\ p_current = 0
    /\ statements = <<>>
    /\ p_err = NoSyntaxError
    /\ p_pc = "parsing"
    /\ ScanIdle
    /\ InterpIdle

\* One turn of the loop of Parser::parse: statements.push(self.declaration()?)
ParseDeclaration ==
    /\ p_pc = "parsing"
    /\ ~Parser_is_at_end(p_current)
    /\ \E r \in {declaration(p_current)} :
           /\ p_current' = r.cur
           /\ statements' = IF r.kind = "ok" THEN Append(statements, r.node)
                            ELSE <<>>
           /\ p_err' = r.err
           /\ p_pc' = CASE r.kind = "ok" -> "parsing"
                        [] r.kind = "err" -> "err"
                        [] OTHER -> "panic"
    /\ UNCHANGED <<p_tokens, scan_vars, interp_vars>>

\* The loop of Parser::parse has ended with Ok(statements); parse() checks
\* that the cursor is at Eof.
ParseFinish ==
    /\ p_pc = "parsing"
    /\ Parser_is_at_end(p_current)
    /\ IF ~Parser_is_at_end(p_current)
       THEN /\ p_err' = SyntaxError("UnexpectedToken",
                            Parser_peek(p_current).token_type, "None",
                            Parser_peek(p_current).line,
                            Parser_peek(p_current).column)
            /\ statements' = <<>>
            /\ p_pc' = "err"
       ELSE /\ p_pc' = "ok"
            /\ UNCHANGED <<p_err, statements>>
    /\ UNCHANGED <<p_tokens, p_current, scan_vars, interp_vars>>

ParseNext == ParseDeclaration \/ ParseFinish

SpecParse == ParseInit /\ [][ParseNext]_vars

\* parse() runs on one thread with nothing to wait for: while a turn of its
\* loop or its return is possible, it is taken.
SpecParseFair == SpecParse /\ WF_vars(ParseNext)

\* ------------------------------------------------------------ interpreter

\* f64 numbers are modelled as fractions n/d in lowest terms with d > 0:
\* exact for the sums, products and quotients of the small integers the
\* statement pools hold.
RECURSIVE gcd(_, _)
gcd(a, b) == IF b = 0 THEN a ELSE gcd(b, a % b)

abs(x) == IF x < 0 THEN -x ELSE x

Rat(n, d) ==
    LET g == gcd(abs(n), abs(d))
        sign == IF d < 0 THEN -1 ELSE 1
    IN  [n |-> sign * (n \div g), d |-> sign * (d \div g)]

FromInt(i) == [n |-> i, d |-> 1]

RAdd(p, q) == Rat(p.n * q.d + q.n * p.d, p.d * q.d)

RSub(p, q) == Rat(p.n * q.d - q.n * p.d, p.d * q.d)

RMul(p, q) == Rat(p.n * q.n, p.d * q.d)

RDiv(p, q) == Rat(p.n * q.d, p.d * q.n)

RNeg(p) == [n |-> -p.n, d |-> p.d]

RAbs(p) == [n |-> abs(p.n), d |-> p.d]

RLess(p, q) == p.n * q.d < q.n * p.d

RLessEq(p, q) == p.n * q.d <= q.n * p.d

\* f64::EPSILON is 2^-EPSILON_BITS
EPSILON_BITS == 52

\* n/d < 2^-k, for n >= 0 and d > 0
RECURSIVE lt_pow2(_, _, _)
lt_pow2(n, d, k) ==
    IF n = 0 THEN TRUE
    ELSE IF n >= d THEN FALSE
    ELSE IF k = 0 THEN TRUE
    ELSE lt_pow2(2 * n, d, k - 1)

\* Value
VNumber(q) == <<"Number", q>>

VString(s) == <<"String", s>>

VBool(b) == <<"Bool", b>>

VNull == <<"Null">>

\* the decimal digits of a natural number
RECURSIVE nat_digits(_)
nat_digits(n) ==
    LET digit == <<"0", "1", "2", "3", "4", "5", "6", "7", "8", "9">>[(n % 10) + 1]
    IN  IF n < 10 THEN <<digit>> ELSE Append(nat_digits(n \div 10), digit)

\* the digits after the decimal point of rem/d, at most k of them
RECURSIVE frac_digits(_, _, _)
frac_digits(rem, d, k) ==
    IF rem = 0 \/ k = 0 THEN <<>>
    ELSE nat_digits((rem * 10) \div d) \o frac_digits((rem * 10) % d, d, k - 1)

\* impl fmt::Display for Value. A Number prints as f64 does: no fraction
\* when it is whole, else the digits of the fraction (f64 prints at most 17
\* significant digits; the pools print terminating decimals only).
Display(v) ==
    CASE v[1] = "Number" ->
            LET q == v[2]
                whole == abs(q.n) \div q.d
                rem == abs(q.n) % q.d
            IN  (IF q.n < 0 THEN <<"-">> ELSE <<>>) \o nat_digits(whole)
                \o (IF rem = 0 THEN <<>> ELSE <<".">> \o frac_digits(rem, q.d, 17))
      [] v[1] = "String" -> v[2]
      [] v[1] = "Bool" -> IF v[2] THEN <<"t", "r", "u", "e">>
                          ELSE <<"f", "a", "l", "s", "e">>
      [] OTHER -> <<"n", "u", "l", "l">>

\* Result<Value, String> with the environment the call leaves; "panic" when
\* the call does not return.
IOk(val, e) == [kind |-> "ok", val |-> val, err |-> NoRuntimeError, env |-> e]

IErr(error, e) == [kind |-> "err", val |-> VNull, err |-> error, env |-> e]

IPanic(e) == [kind |-> "panic", val |-> VNull, err |-> NoRuntimeError, env |-> e]

\* Environment::define
define(e, sym, value) ==
    [name \in DOMAIN e \cup {sym.name} |->
        IF name = sym.name THEN value ELSE e[name]]

\* Environment::assign without the contains_key test: it always defines
assign_declaring(e, sym, val) ==
    IOk(val, [name \in DOMAIN e \cup {sym.name} |->
                 IF name = sym.name THEN Some(val) ELSE e[name]])

\* Environment::assign
assign(e, sym, val) ==
    IF sym.name \in DOMAIN e
    THEN IOk(val, define(e, sym, Some(val)))
    ELSE IErr(RuntimeError("attempted to assign to an undefined variable",
                           <<>>, 0, 0), e)

\* Environment::get: values[name].clone().unwrap() panics on a None
get(e, name) ==
    IF name \in DOMAIN e
    THEN IF Len(e[name]) = 0 THEN IPanic(e) ELSE IOk(e[name][1], e)
    ELSE IErr(RuntimeError("Undefined variable", name, 0, 0), e)

\* Interpreter::interpret_literal
interpret_literal(lit) ==
    CASE lit[1] = "Number" -> VNumber(FromInt(lit[2]))
      [] lit[1] = "String" -> VString(lit[2])
      [] lit[1] = "True" -> VBool(TRUE)
      [] lit[1] = "False" -> VBool(FALSE)
      [] OTHER -> VNull

\* an equality that compares the variants only
equals_by_variant(left, right) == left[1] = right[1]

\* Interpreter::equals
equals(left, right) ==
    CASE left[1] = "Number" /\ right[1] = "Number" ->
            LET diff == RAbs(RSub(left[2], right[2]))
            IN  lt_pow2(diff.n, diff.d, EPSILON_BITS)
      [] left[1] = "String" /\ right[1] = "String" -> left[2] = right[2]
      [] left[1] = "Bool" /\ right[1] = "Bool" -> left[2] = right[2]
      [] left[1] = "Null" /\ right[1] = "Null" -> TRUE
      [] OTHER -> FALSE

\* the match of Interpreter::interpret_unary on (op.u_type, &val)
unary_match(op, val, e) ==
    CASE op.u_type = "Minus" /\ val[1] = "Number" -> IOk(VNumber(RNeg(val[2])), e)
      [] op.u_type = "Bang" /\ val[1] = "Bool" -> IOk(VBool(~val[2]), e)
      [] op.u_type = "Minus" /\ val[1] # "Number" ->
            IErr(RuntimeError("NaN", <<>>, 0, 0), e)
      [] OTHER -> IErr(RuntimeError("Not a boolean", <<>>, 0, 0), e)

\* the match of Interpreter::interpret_binary on (&l, op.b_type, &r); its
\* last arm, `_ => Err(todo!())`, panics
binary_match(l, op, r, e) ==
    LET nums == l[1] = "Number" /\ r[1] = "Number"
        b == op.b_type
    IN  CASE nums /\ b = "Less" -> IOk(VBool(RLess(l[2], r[2])), e)
          [] nums /\ b = "LessEqual" -> IOk(VBool(RLessEq(l[2], r[2])), e)
          [] nums /\ b = "Greater" -> IOk(VBool(RLess(r[2], l[2])), e)
          [] nums /\ b = "GreaterEqual" -> IOk(VBool(RLessEq(r[2], l[2])), e)
          [] nums /\ b = "Sub" -> IOk(VNumber(RSub(l[2], r[2])), e)
          [] nums /\ b = "Add" -> IOk(VNumber(RAdd(l[2], r[2])), e)
          [] nums /\ b = "Mult" -> IOk(VNumber(RMul(l[2], r[2])), e)
          [] nums /\ b = "Div" ->
                IF r[2].n = 0
                THEN IErr(RuntimeError("Can't divide by zero", <<>>,
                                       op.line, op.column), e)
                ELSE IOk(VNumber(RDiv(l[2], r[2])), e)
          [] l[1] = "String" /\ b = "Add" /\ r[1] = "String" ->
                IOk(VString(l[2] \o r[2]), e)
          [] b = "EqualEqual" -> IOk(VBool(equals(l, r)), e)
          [] b = "NotEqual" -> IOk(VBool(equals(l, r)), e)
          [] OTHER -> IPanic(e)

RECURSIVE interpret_expr(_, _)

\* Interpreter::interpret_unary
interpret_unary(e, op, operand) ==
    Bind(interpret_expr(e, operand), LAMBDA val :
        IF val.kind # "ok" THEN val ELSE unary_match(op, val.val, val.env))

\* interpret_binary with the operands taken in the other order: right, then
\* left
interpret_binary_right_first(e, op, left, right) ==
    Bind(interpret_expr(e, right), LAMBDA r :
        IF r.kind # "ok" THEN r
        ELSE Bind(interpret_expr(r.env, left), LAMBDA l :
                IF l.kind # "ok" THEN l
                ELSE binary_match(l.val, op, r.val, l.env)))

\* Interpreter::interpret_binary
interpret_binary(e, op, left, right) ==
    Bind(interpret_expr(e, left), LAMBDA l :
        IF l.kind # "ok" THEN l
        ELSE Bind(interpret_expr(l.env, right), LAMBDA r :
                IF r.kind # "ok" THEN r
                ELSE binary_match(l.val, op, r.val, r.env)))

\* interpret_expr with a Grouping arm that evaluates to Null
interpret_expr_grouping_null(e, expr) ==
    CASE expr[1] = "Literal" -> IOk(interpret_literal(expr[2]), e)
      [] expr[1] = "Grouping" -> IOk(VNull, e)
      [] expr[1] = "Unary" -> interpret_unary(e, expr[2], expr[3])
      [] expr[1] = "Binary" -> interpret_binary(e, expr[3], expr[2], expr[4])
      [] expr[1] = "Variable" -> get(e, expr[2].name)
      [] expr[1] = "Assignment" ->
            Bind(interpret_expr(e, expr[3]), LAMBDA val :
                IF val.kind # "ok" THEN val
                ELSE assign(val.env, expr[2], val.val))
      [] OTHER -> IPanic(e)

\* Interpreter::interpret_expr
interpret_expr(e, expr) ==
    CASE expr[1] = "Literal" -> IOk(interpret_literal(expr[2]), e)
      [] expr[1] = "Grouping" -> interpret_expr(e, expr[2])
      [] expr[1] = "Unary" -> interpret_unary(e, expr[2], expr[3])
      [] expr[1] = "Binary" -> interpret_binary(e, expr[3], expr[2], expr[4])
      [] expr[1] = "Variable" -> get(e, expr[2].name)
      [] expr[1] = "Assignment" ->
            Bind(interpret_expr(e, expr[3]), LAMBDA val :
                IF val.kind # "ok" THEN val
                ELSE assign(val.env, expr[2], val.val))
      [] OTHER -> IPanic(e)    \* Expr::Ternary: todo!()

\* execute with the VarDeclaration arm defining the name before its
\* initializer is evaluated, so that a failing initializer leaves it declared
execute_defining_first(e, out, stmt) ==
    CASE stmt[1] = "Print" ->
            Bind(interpret_expr(e, stmt[2]), LAMBDA v :
                [kind |-> v.kind, err |-> v.err, env |-> v.env,
                 output |-> IF v.kind = "ok" THEN Append(out, Display(v.val))
                            ELSE out])
      [] stmt[1] = "Expression" ->
            Bind(interpret_expr(e, stmt[2]), LAMBDA v :
                [kind |-> v.kind, err |-> v.err, env |-> v.env, output |-> out])
      [] OTHER ->
            LET init == stmt[3] # None
            IN  Bind(IF init THEN interpret_expr(define(e, stmt[2], None), stmt[3][1])
                     ELSE IOk(VNull, e),
                     LAMBDA v :
                        [kind |-> v.kind, err |-> v.err, output |-> out,
                         env |-> IF v.kind = "ok"
                                 THEN define(v.env, stmt[2],
                                             IF init THEN Some(v.val) ELSE None)
                                 ELSE v.env])

\* Interpreter::execute: the Result, the environment and the output after
execute(e, out, stmt) ==
    CASE stmt[1] = "Print" ->
            Bind(interpret_expr(e, stmt[2]), LAMBDA v :
                [kind |-> v.kind, err |-> v.err, env |-> v.env,
                 output |-> IF v.kind = "ok" THEN Append(out, Display(v.val))
                            ELSE out])
      [] stmt[1] = "Expression" ->
            Bind(interpret_expr(e, stmt[2]), LAMBDA v :
                [kind |-> v.kind, err |-> v.err, env |-> v.env, output |-> out])
      [] OTHER ->
            LET init == stmt[3] # None
            IN  Bind(IF init THEN interpret_expr(e, stmt[3][1]) ELSE IOk(VNull, e),
                     LAMBDA v :
                        [kind |-> v.kind, err |-> v.err, output |-> out,
                         env |-> IF v.kind = "ok"
                                 THEN define(v.env, stmt[2],
                                             IF init THEN Some(v.val) ELSE None)
                                 ELSE v.env])

\* interpret with the error of execute dropped: `let _ = self.execute(stmt);`
after_execute_ignoring_err(kind) ==
    IF kind = "panic" THEN "panic" ELSE "running"

\* the `?` of Interpreter::interpret on what execute returned: where
\* interpret is after the statement
after_execute(kind) ==
    CASE kind = "ok" -> "running"
      [] kind = "err" -> "err"
      [] OTHER -> "panic"


\* AST nodes as the parser builds them
Lit(l) == <<"Literal", l>>

Num(i) == Lit(<<"Number", i>>)

Str(s) == Lit(<<"String", s>>)

Var(name) == <<"Variable", Symbol(name, 1, 0)>>

Assign(name, e) == <<"Assignment", Symbol(name, 1, 0), e>>

Group(e) == <<"Grouping", e>>

Un(u, e) == <<"Unary", [u_type |-> u, line |-> 1, column |-> 0], e>>

Bin(l, b, r) == <<"Binary", l, [b_type |-> b, line |-> 1, column |-> 2], r>>

PrintStmt(e) == <<"Print", e>>

ExprStmt(e) == <<"Expression", e>>

VarDeclStmt(name, init) == <<"VarDeclaration", Symbol(name, 1, 4), init>>

\* The statements programs are drawn from.
StmtPool ==
    {VarDeclStmt(<<"a">>, None),
     VarDeclStmt(<<"a">>, Some(Num(1))),
     PrintStmt(Var(<<"a">>)),
     PrintStmt(Num(2)),
     ExprStmt(Assign(<<"a">>, Num(2))),
     PrintStmt(Bin(Str(<<"a">>), "Add", Num(1))),
     PrintStmt(Bin(Lit(<<"True">>), "Less", Num(1))),
     PrintStmt(Bin(Num(1), "Div", Num(0))),
     PrintStmt(Bin(Str(<<"a">>), "Add", Str(<<"b">>))),
     ExprStmt(Assign(<<"b">>, Group(Assign(<<"a">>, Num(2))))),
     PrintStmt(Un("Minus", Str(<<"a">>))),
     PrintStmt(Bin(Var(<<"a">>), "Add", Num(1)))}

Programs == SeqsUpTo(StmtPool, MaxStmts)

BinOpTypes ==
    {"EqualEqual", "NotEqual", "Less", "LessEqual", "Greater", "GreaterEqual",
     "Add", "Sub", "Mult", "Div"}

\* The literal operands of the one-statement programs.
EvalLeaves ==
    {Num(0), Num(1), Num(2), Str(<<"a">>), Str(<<"b">>),
     Lit(<<"True">>), Lit(<<"False">>), Lit(<<"Null">>)}

\* One Print of one Binary node over literals, for every operator.
EvalPrograms ==
    {<<PrintStmt(Bin(l, b, r))>> : l \in EvalLeaves, b \in BinOpTypes, r \in EvalLeaves}

\* interpret(stmts): a fresh Interpreter
InterpStart(programs) ==
    /\ stmts \in programs
    /\ i_next = 0
    /\ env = EmptyEnv
    /\ output = <<>>
    /\ i_err = NoRuntimeError
    /\ log = <<>>
    /\ i_pc = "running"
    /\ ScanIdle
    /\ ParseIdle

InterpInit == InterpStart(Programs)

EvalInit == InterpStart(EvalPrograms)

\* One turn of the loop of Interpreter::interpret: self.execute(stmt)?
Execute ==
    /\ i_pc = "running"
    /\ i_next < Len(stmts)
    /\ \E r \in {execute(env, output, stmts[i_next + 1])} :
           /\ env' = r.env
           /\ output' = r.output
           /\ i_err' = r.err
           /\ i_pc' = after_execute(r.kind)
           /\ i_next' = IF after_execute(r.kind) = "running"
                        THEN i_next + 1 ELSE i_next
           /\ log' = Append(log,
                  [stmt |-> i_next + 1,
                   lines |-> SubSeq(r.output, Len(output) + 1, Len(r.output))])
    /\ UNCHANGED <<stmts, scan_vars, parse_vars>>

\* The loop of Interpreter::interpret has ended: Ok(())
InterpretDone ==
    /\ i_pc = "running"
    /\ i_next >= Len(stmts)
    /\ i_pc' = "ok"
    /\ UNCHANGED <<stmts, i_next, env, output, i_err, log, scan_vars, parse_vars>>

InterpNext == Execute \/ InterpretDone

SpecInterp == InterpInit /\ [][InterpNext]_vars

SpecEval == EvalInit /\ [][InterpNext]_vars

\* ---------------------------------------------- programs with assignments

MaxAssignStmts == 2   \* statements after the declarations

\* The declarations a program opens with.
AssignPrefixes ==
    {<<>>,
     <<VarDeclStmt(<<"a">>, None)>>,
     <<VarDeclStmt(<<"a">>, Some(Num(1)))>>,
     <<VarDeclStmt(<<"a">>, None), VarDeclStmt(<<"b">>, Some(Num(1))),
       VarDeclStmt(<<"c">>, Some(Num(3)))>>}

\* The statements that follow them.
AssignPool ==
    {ExprStmt(Assign(<<"a">>, Num(2))),
     ExprStmt(Assign(<<"b">>, Str(<<"s">>))),
     PrintStmt(Assign(<<"a">>, Num(2))),
     ExprStmt(Assign(<<"a">>, Assign(<<"b">>, Var(<<"c">>)))),
     ExprStmt(Assign(<<"a">>, Lit(<<"Null">>))),
     PrintStmt(Var(<<"a">>)),
     PrintStmt(Var(<<"b">>))}

AssignPrograms ==
    {pre \o post : pre \in AssignPrefixes,
                   post \in SeqsUpTo(AssignPool, MaxAssignStmts)}

AssignInit == InterpStart(AssignPrograms)

SpecAssign == AssignInit /\ [][InterpNext]_vars

\* ------------------------------------------- parse, then interpret (run)

\* the token of a number literal (src/src/token.rs: Literal::Num)
NumTok(i) == Tok("Number", nat_digits(i), Some(<<"Num", i>>))

\* the tokens of the binary operators, by kind
BinOpToks ==
    {Tok("EqualEqual", <<"=", "=">>, None), Tok("BangEqual", <<"!", "=">>, None),
     Tok("Less", <<"<">>, None), Tok("LessEqual", <<"<", "=">>, None),
     Tok("Greater", <<">">>, None), Tok("GreaterEqual", <<">", "=">>, None),
     Tok("Plus", <<"+">>, None), Tok("Minus", <<"-">>, None),
     Tok("Star", <<"*">>, None), Tok("Slash", <<"/">>, None)}

PrintTok == Tok("Print", <<"p", "r", "i", "n", "t">>, None)

SemicolonTok == Tok("Semicolon", <<";">>, None)

\* `var a =`
VarHeadToks ==
    <<Tok("Var", <<"v", "a", "r">>, None),
      Tok("Identifier", <<"a">>, Some(<<"Identifier", <<"a">>>>)),
      Tok("Equal", <<"=">>, None)>>

\* run() of main.rs once parse has returned Ok(stmts): interpret(&ast) on
\* a fresh Interpreter
RunInterpret ==
    /\ p_pc = "ok"
    /\ i_pc = "idle"
    /\ stmts' = statements
    /\ i_pc' = "running"
    /\ UNCHANGED <<i_next, env, output, i_err, log, scan_vars, parse_vars>>

RunNext == ParseNext \/ RunInterpret \/ InterpNext

\* parse(tokens) on one of `seqs`, the interpreter not yet constructed
RunInit(seqs) ==
    /\ p_tokens \in seqs
    /\ p_current = 0
    /\ statements = <<>>
    /\ p_err = NoSyntaxError
    /\ p_pc = "parsing"
    /\ ScanIdle
    /\ InterpIdle

\* The numbers a division is tried on.
DivOperands == {0, 1, 2, 3}

\* the tokens of `n / m ;` after `head`, all on line `ln`
DivTokens(head, n, m, ln) ==
    LET ts == Positioned(head \o <<NumTok(n), Tok("Slash", <<"/">>, None),
                                   NumTok(m), SemicolonTok>>)
    IN  [i \in 1..Len(ts) |-> [ts[i] EXCEPT !.line = ln]]

\* `n / m ;`, `print n / m ;` and `var a = n / m ;` on line 1 or line 2
DivTokenSeqs ==
    {DivTokens(head, n, m, ln) :
        head \in {<<>>, <<PrintTok>>, VarHeadToks},
        n \in DivOperands, m \in DivOperands, ln \in {1, 2}}

DivInit == RunInit(DivTokenSeqs)

SpecDiv == DivInit /\ [][RunNext]_vars

\* ----------------------------------------------- chains of binary operators

MaxOps == 2   \* operators of a chain

\* The number literals of a chain.
ChainOperands == {NumTok(1), NumTok(2), NumTok(3)}

\* `print o1 op1 o2 ... ;`: the operands nums[1..n+1] with the operators
\* ops[1..n] between them
ChainTokens(ops, nums) ==
    Positioned(<<PrintTok>>
               \o [i \in 1..(2 * Len(ops) + 1) |->
                      IF i % 2 = 1 THEN nums[(i + 1) \div 2] ELSE ops[i \div 2]]
               \o <<SemicolonTok>>)

\* parse() on `print chain ;` for every chain of 1..MaxOps operators
PrecInit ==
    \E n \in 1..MaxOps :
        \E ops \in [1..n -> BinOpToks], nums \in [1..(n + 1) -> ChainOperands] :
            RunInit({ChainTokens(ops, nums)})

SpecPrec == PrecInit /\ [][RunNext]_vars

\* ------------------------------------------------- programs with groupings

\* The expressions a grouping is put around: values, errors, a panic and
\* assignments.
GroupExprs ==
    {Num(1), Str(<<"s">>), Var(<<"a">>),
     Assign(<<"a">>, Num(2)), Assign(<<"b">>, Num(2)),
     Bin(Var(<<"a">>), "Add", Num(1)),
     Bin(Str(<<"a">>), "Add", Num(1)),
     Bin(Num(1), "Div", Num(0)),
     Un("Minus", Str(<<"a">>))}

\* each of them plain, grouped, grouped twice and grouped as an operand
GroupedExprs ==
    UNION {{e, Group(e), Group(Group(e)),
            Bin(e, "EqualEqual", Num(2)), Bin(Group(e), "EqualEqual", Num(2)),
            Assign(<<"a">>, Group(e))} : e \in GroupExprs}

\* one statement over such an expression, after a declaration of a or none
GroupPrograms ==
    {pre \o <<st>> :
        pre \in {<<>>, <<VarDeclStmt(<<"a">>, None)>>,
                 <<VarDeclStmt(<<"a">>, Some(Num(1)))>>},
        st \in UNION {{PrintStmt(e), ExprStmt(e), VarDeclStmt(<<"b">>, Some(e))} :
                        e \in GroupedExprs}}

GroupInit == InterpStart(GroupPrograms)

SpecGroup == GroupInit /\ [][InterpNext]_vars

\* ------------------------------------------------------ Parser::synchronize

MaxSyncTokens == 3   \* tokens before the Eof token

KeywordTok(token_type, word) == Tok(token_type, word, None)

\* The tokens synchronize is run over: the `;`, the keywords its match
\* names, and tokens of an expression.
SyncAlphabet ==
    {SemicolonTok, PrintTok,
     KeywordTok("Var", <<"v", "a", "r">>),
     KeywordTok("Class", <<"c", "l", "a", "s", "s">>),
     KeywordTok("While", <<"w", "h", "i", "l", "e">>),
     KeywordTok("Return", <<"r", "e", "t", "u", "r", "n">>),
     NumTok(1),
     Tok("Plus", <<"+">>, None)}

SyncTokenSeqs == {Positioned(ts) : ts \in SeqsUpTo(SyncAlphabet, MaxSyncTokens)}

\* synchronize() is called with the cursor at the token the error was met at
SyncInit ==
    /\ p_tokens \in SyncTokenSeqs
    /\ p_current \in 0..(Len(p_tokens) - 1)
    /\ statements = <<>>
    /\ p_err = NoSyntaxError
    /\ p_pc = "synchronize"
    /\ ScanIdle
    /\ InterpIdle

\* The first statement of synchronize: self.advance(). advance() ends with
\* self.previous(), which reads tokens[current - 1]: with the cursor at 0
\* (on the Eof token, so not moved) the index underflows and the call panics.
SyncAdvance ==
    /\ p_pc = "synchronize"
    /\ p_current' = Parser_advance(p_current)
    /\ p_pc' = IF Parser_advance(p_current) = 0 THEN "panic" ELSE "synchronizing"
    /\ UNCHANGED <<p_tokens, statements, p_err, scan_vars, interp_vars>>

\* One test of the loop condition of synchronize and, when it holds, one
\* turn of the loop: only `return` and a `;` just passed make it return; the
\* other keywords of the match fall through to self.advance(); any other
\* token reaches todo!().
SyncLoop ==
    /\ p_pc = "synchronizing"
    /\ IF Parser_is_at_end(p_current)
       THEN p_pc' = "synchronized" /\ p_current' = p_current
       ELSE IF previous(p_current).token_type = "Semicolon"
       THEN p_pc' = "synchronized" /\ p_current' = p_current
       ELSE IF Parser_peek(p_current).token_type = "Return"
       THEN p_pc' = "synchronized" /\ p_current' = p_current
       ELSE IF Parser_peek(p_current).token_type
                  \in {"Class", "Func", "Var", "If", "For", "While", "Print"}
       THEN p_pc' = "synchronizing" /\ p_current' = Parser_advance(p_current)
       ELSE p_pc' = "panic" /\ p_current' = p_current
    /\ UNCHANGED <<p_tokens, statements, p_err, scan_vars, interp_vars>>

SyncNext == SyncAdvance \/ SyncLoop

SpecSync == SyncInit /\ [][SyncNext]_vars

\* ------------------------------------------------ long integer literals

MaxDigitRun == 20   \* digits of a run, before an optional leading zero

\* The state of Scanner::default() with a run of digits stored as the input:
\* the first n digits of u64::MAX (repeated past their end) with digit k
\* replaced by d, after z zeros; runs of every length up to the 20 digits of
\* u64::MAX, on both sides of it.
DigitsInit ==
    /\ \E n \in 1..MaxDigitRun, z \in 0..1 :
           \E k \in 1..n, d \in Digits :
               LET max == <<"1", "8", "4", "4", "6", "7", "4", "4", "0", "7",
                            "3", "7", "0", "9", "5", "5", "1", "6", "1", "5">>
               IN  source = [i \in 1..z |-> "0"] \o
                            [i \in 1..n |-> IF i = k THEN d
                                            ELSE max[((i - 1) % 20) + 1]]
    /\ tokens = <<>>
    /\ err = None
    /\ start = 0
    /\ current = 0
    /\ line = 1
    /\ column = -1
    /\ s_pc = "scanning"
    /\ ParseIdle
    /\ InterpIdle

SpecDigits == DigitsInit /\ [][ScanNext]_vars

\* ------------------------------- statements that fail after an assignment

MaxFrameStmts == 2   \* statements after the declarations

\* The statements that follow the declarations of AssignPrefixes: where b
\* is not declared, each of them but the last two ends in an error, most
\* after an assignment nested in it.
FramePool ==
    {ExprStmt(Assign(<<"b">>, Group(Assign(<<"a">>, Num(2))))),
     VarDeclStmt(<<"d">>, Some(Bin(Assign(<<"a">>, Num(2)), "Div", Num(0)))),
     PrintStmt(Bin(Assign(<<"a">>, Num(2)), "Add", Var(<<"b">>))),
     ExprStmt(Un("Minus", Assign(<<"a">>, Str(<<"s">>)))),
     ExprStmt(Assign(<<"a">>, Assign(<<"c">>, Bin(Assign(<<"a">>, Num(5)), "Div", Num(0))))),
     ExprStmt(Assign(<<"a">>, Var(<<"b">>))),
     PrintStmt(Bin(Num(1), "Div", Num(0))),
     ExprStmt(Assign(<<"a">>, Num(4))),
     PrintStmt(Var(<<"a">>))}

FrameInit ==
    InterpStart({pre \o post : pre \in AssignPrefixes,
                               post \in SeqsUpTo(FramePool, MaxFrameStmts)})

SpecFrame == FrameInit /\ [][InterpNext]_vars

\* ------------------------------------ Binary nodes with effects in operands

MaxOrderStmts == 1   \* statements after the declarations

\* The declarations a program opens with.
OrderPrefixes ==
    {<<>>,
     <<VarDeclStmt(<<"a">>, Some(Num(1)))>>,
     <<VarDeclStmt(<<"a">>, Some(Num(1))), VarDeclStmt(<<"c">>, None)>>}

\* The operands of the Binary nodes: a literal, reads and assignments of a
\* declared variable (a), of one never declared (b) and of one that may be
\* declared without a value (c), a division by zero, and a Binary node that
\* holds an assignment and a read itself.
OrderOperands ==
    {Num(1),
     Var(<<"a">>),
     Var(<<"b">>),
     Var(<<"c">>),
     Assign(<<"a">>, Num(2)),
     Assign(<<"c">>, Num(0)),
     Bin(Num(1), "Div", Num(0)),
     Bin(Assign(<<"a">>, Num(5)), "Add", Var(<<"c">>))}

\* The statements after the declarations: one Print of one Binary node for
\* each pair of operands and each of three operators.
OrderInit ==
    \E pre \in OrderPrefixes, n \in 0..MaxOrderStmts :
        \E post \in [1..n -> {PrintStmt(Bin(l, b, r)) :
                                  l \in OrderOperands,
                                  b \in {"Add", "Div", "EqualEqual"},
                                  r \in OrderOperands}] :
            InterpStart({pre \o post})

SpecOrder == OrderInit /\ [][InterpNext]_vars

\* ----------------------------------------------------------------- claims

\* the kinds of a token sequence
TokenKinds(ts) == [i \in 1..Len(ts) |-> ts[i].token_type]

scan_ended == s_pc \in {"done", "panic"}

parse_ended == p_pc \in {"ok", "err", "panic"}

interpret_ended == i_pc \in {"ok", "err", "panic"}

\* the operator and punctuation lexemes with the kind each one names
OperatorLexemes ==
    {<<<<"(">>, "LeftParen">>, <<<<")">>, "RightParen">>,
     <<<<"{">>, "LeftBrace">>, <<<<"}">>, "RightBrace">>,
     <<<<"[">>, "LeftBracket">>, <<<<"]">>, "RightBracket">>,
     <<<<",">>, "Comma">>, <<<<".">>, "Dot">>, <<<<"-">>, "Minus">>,
     <<<<"+">>, "Plus">>, <<<<";">>, "Semicolon">>, <<<<"*">>, "Star">>,
     <<<<"/">>, "Slash">>,
     <<<<"!">>, "Bang">>, <<<<"!", "=">>, "BangEqual">>,
     <<<<"=">>, "Equal">>, <<<<"=", "=">>, "EqualEqual">>,
     <<<<"<">>, "Less">>, <<<<"<", "=">>, "LessEqual">>,
     <<<<">">>, "Greater">>, <<<<">", "=">>, "GreaterEqual">>}

\* C1: a source that is exactly one operator or punctuation lexeme scans to
\* Ok with two tokens, the kind the lexeme names and then Eof.
C1_OperatorLexemeRoundTrip ==
    \A p \in OperatorLexemes :
        (source = p[1] /\ scan_ended) =>
            (scan_is_ok /\ TokenKinds(tokens) = <<p[2], "Eof">>)

\* The index of the first token of the first statement's expression: after
\* the `print` keyword when there is one.
ExprStart == IF p_tokens[1].token_type = "Print" THEN 2 ELSE 1

KindAt(i) == IF i <= Len(p_tokens) THEN p_tokens[i].token_type ELSE "None"

\* The first statement is `[print] lhs = value ;` with lhs a literal or a
\* unary expression, so not a Variable node; the answer is the index of `=`,
\* 0 when the statement has another shape.
InvalidTargetEqual ==
    LET s == ExprStart
    IN  IF /\ KindAt(s) = "Number" /\ KindAt(s + 1) = "Equal"
           /\ KindAt(s + 2) \in {"Number", "Identifier"}
           /\ KindAt(s + 3) = "Semicolon"
        THEN s + 1
        ELSE IF /\ KindAt(s) = "Minus" /\ KindAt(s + 1) \in {"Number", "Identifier"}
                /\ KindAt(s + 2) = "Equal"
                /\ KindAt(s + 3) \in {"Number", "Identifier"}
                /\ KindAt(s + 4) = "Semicolon"
        THEN s + 2
        ELSE 0

\* C2: when `=` follows a left side that is not a Variable node, in an
\* expression statement or a print statement, parse returns
\* Err(InvalidAssignment) with the line and column of that `=`.
C2_InvalidAssignmentReturned ==
    (InvalidTargetEqual > 0 /\ parse_ended) =>
        /\ p_pc = "err"
        /\ p_err.kind = "InvalidAssignment"
        /\ p_err.line = p_tokens[InvalidTargetEqual].line
        /\ p_err.column = p_tokens[InvalidTargetEqual].column

\* the tokens of ParseAlphabet that cannot start a primary expression and
\* are no prefix operator
NonStarters == {"Semicolon", "RightParen", "Equal", "Star", "Var", "Print", "Eof"}

\* C3: the first syntax error met is what parse returns: when the expression
\* of the first print or expression statement starts with a token that cannot
\* start a primary, parse returns ExpectedExpression with that token's kind
\* and position, with no statement list, and does not panic.
C3_FirstSyntaxErrorReturned ==
    (/\ p_tokens[1].token_type # "Var"
     /\ ExprStart <= Len(p_tokens)
     /\ KindAt(ExprStart) \in NonStarters
     /\ ~(ExprStart = 1 /\ KindAt(1) \in {"Print", "Eof"})
     /\ parse_ended) =>
        /\ p_pc = "err"
        /\ p_err = SyntaxError("ExpectedExpression", KindAt(ExprStart), "None",
                               p_tokens[ExprStart].line, p_tokens[ExprStart].column)
        /\ statements = <<>>

\* the statement the latest call of execute ran
LastStmt == stmts[log[Len(log)].stmt]

ReadsVariable(stmt) == stmt[1] \in {"Print", "Expression"} /\ stmt[2][1] = "Variable"

Unbound(e, name) == name \notin DOMAIN e \/ Len(e[name]) = 0

\* C4: a statement that reads a variable which is absent from the
\* environment, or declared and never given a value, ends interpret with an
\* UndefinedVariable error value and prints nothing.
C4_UnboundVariableIsError ==
    (/\ Len(log) > 0
     /\ ReadsVariable(LastStmt)
     /\ Unbound(env, LastStmt[2][2].name)) =>
        /\ i_pc = "err"
        /\ i_err.what = "Undefined variable"
        /\ i_err.name = LastStmt[2][2].name
        /\ log[Len(log)].lines = <<>>

\* the operand pairings interpret_binary's arithmetic and relational
\* operators support
SupportedPairing(b, l, r) ==
    \/ l[1] = "Number" /\ r[1] = "Number"
    \/ b = "Add" /\ l[1] = "String" /\ r[1] = "String"

ArithRelOps == BinOpTypes \ {"EqualEqual", "NotEqual"}

\* C5: a Binary node with one of + - * / < <= > >= over an unsupported
\* operand pairing makes interpret return an error value, never a value and
\* never a panic.
C5_TypeMismatchIsError ==
    (/\ interpret_ended
     /\ stmts[1][2][1] = "Binary"
     /\ stmts[1][2][2][1] = "Literal" /\ stmts[1][2][4][1] = "Literal"
     /\ stmts[1][2][3].b_type \in ArithRelOps
     /\ ~SupportedPairing(stmts[1][2][3].b_type,
                          interpret_literal(stmts[1][2][2][2]),
                          interpret_literal(stmts[1][2][4][2]))) =>
        (i_pc = "err" /\ output = <<>>)

\* The index of the opening quote when the source is white space, then a
\* `"` that is never closed (and no backslash); 0 for any other source.
OpenQuote ==
    IF \E i \in 1..Len(source) :
          /\ source[i] = "\""
          /\ \A j \in 1..(i - 1) : source[j] \in {" ", "\n"}
          /\ \A j \in (i + 1)..Len(source) : source[j] \notin {"\"", "\\"}
    THEN CHOOSE i \in 1..Len(source) :
            source[i] = "\"" /\ \A j \in 1..(i - 1) : source[j] # "\""
    ELSE 0

\* C6: an unterminated string makes scan return Err whose line is the line
\* of the opening quote; the scan does not panic.
C6_UnterminatedStringIsError ==
    (OpenQuote > 0 /\ scan_ended) =>
        /\ scan_is_err
        /\ err[1].what = "String needs to be closed"
        /\ err[1].line =
              1 + Cardinality({j \in 1..(OpenQuote - 1) : source[j] = "\n"})

\* the source is `//` and then text
IsLineComment == Len(source) >= 2 /\ source[1] = "/" /\ source[2] = "/"

\* C7: `//` starts a comment that runs up to the next newline or to the end
\* of input and emits no token; a `/` not followed by `/`, also as the last
\* character, emits one Slash; the scan then goes on and ends with Eof.
C7_SlashOrComment ==
    scan_ended =>
        /\ (IsLineComment /\ \A i \in 3..Len(source) : source[i] # "\n") =>
              (s_pc = "done" /\ TokenKinds(tokens) = <<"Eof">>)
        /\ (/\ IsLineComment /\ source[Len(source)] = "\n"
            /\ \A i \in 3..(Len(source) - 1) : source[i] # "\n") =>
              (s_pc = "done" /\ TokenKinds(tokens) = <<"Eof">> /\ line = 2)
        /\ source = <<"/">> =>
              (s_pc = "done" /\ TokenKinds(tokens) = <<"Slash", "Eof">>)
        /\ source = <<"/", "+">> =>
              (s_pc = "done" /\ TokenKinds(tokens) = <<"Slash", "Plus", "Eof">>)

Letters == {"o", "r", "x"}

\* the kind the keyword table gives a run of letters, "Identifier" when the
\* run is no keyword
KindOfWord(word) ==
    IF \E k \in keywords : k[1] = word
    THEN (CHOOSE k \in keywords : k[1] = word)[2]
    ELSE "Identifier"

\* C8: a source that is one run of letters scans to Ok with one token and
\* Eof: the keyword's kind when the run is a keyword, else an Identifier
\* token whose literal is Identifier(name).
C8_WordIsKeywordOrIdentifier ==
    (/\ Len(source) > 0
     /\ \A i \in 1..Len(source) : source[i] \in Letters
     /\ scan_ended) =>
        /\ scan_is_ok
        /\ Len(tokens) = 2
        /\ tokens[1].token_type = KindOfWord(source)
        /\ tokens[1].lexeme = source
        /\ KindOfWord(source) = "Identifier" =>
              tokens[1].literal = Some(<<"Identifier", source>>)
        /\ tokens[2].token_type = "Eof"

\* The token sequence is `var IDENTIFIER`, with or without `= value`, and
\* then a token that is not `;`.
VarWithoutSemicolon ==
    /\ KindAt(1) = "Var"
    /\ KindAt(2) = "Identifier"
    /\ \/ KindAt(3) \notin {"Semicolon", "Equal"}
       \/ /\ KindAt(3) = "Equal"
          /\ KindAt(4) \in {"Number", "Identifier"}
          /\ KindAt(5) \in {"Eof", "RightParen", "Var", "Print"}

\* C9: a var declaration that is not closed by `;` makes parse return
\* TokenMismatch expecting Semicolon, and no VarDeclaration is built.
C9_VarNeedsSemicolon ==
    VarWithoutSemicolon =>
        /\ statements = <<>>
        /\ parse_ended =>
              /\ p_pc = "err"
              /\ p_err.kind = "TokenMismatch"
              /\ p_err.expected = "Semicolon"

\* the number of Print statements among the first n statements
PrintsBefore(n) == Cardinality({j \in 1..n : stmts[j][1] = "Print"})

RECURSIVE LinesOf(_)
LinesOf(entries) ==
    IF entries = <<>> THEN <<>>
    ELSE LinesOf(SubSeq(entries, 1, Len(entries) - 1))
         \o entries[Len(entries)].lines

\* C10: interpret runs the statements in order and stops at the first one
\* that fails: execute is called on statements 1, 2, 3... once each, on none
\* after a failing one; the failing statement writes nothing; the output is
\* the lines of the Print statements before it, one each, in statement order.
C10_InOrderStopAtFirstError ==
    /\ \A k \in 1..Len(log) : log[k].stmt = k
    /\ Len(log) = i_next + (IF i_pc \in {"err", "panic"} THEN 1 ELSE 0)
    /\ i_pc \in {"err", "panic"} => log[Len(log)].lines = <<>>
    /\ \A k \in 1..i_next :
          Len(log[k].lines) = (IF stmts[k][1] = "Print" THEN 1 ELSE 0)
    /\ \A k \in 1..i_next :
          /\ stmts[k] = PrintStmt(Num(2)) => log[k].lines = << <<"2">> >>
          /\ stmts[k] = PrintStmt(Bin(Str(<<"a">>), "Add", Str(<<"b">>))) =>
                log[k].lines = << <<"a", "b">> >>
    /\ output = LinesOf(log)
    /\ Len(output) = PrintsBefore(i_next)
    /\ i_pc = "ok" => i_next = Len(stmts)

\* interpret has returned an error at a Print statement, after a line was
\* written and with a Print statement still to come.
C10_Witness ==
    /\ i_pc = "err"
    /\ Len(output) >= 1
    /\ i_next + 2 <= Len(stmts)
    /\ stmts[i_next + 1][1] = "Print"
    /\ stmts[i_next + 2][1] = "Print"

\* interpret() is about to call execute on a Print or Expression statement
\* whose expression is an Assignment node
AtAssignment ==
    /\ i_pc = "running"
    /\ i_next < Len(stmts)
    /\ stmts[i_next + 1][1] \in {"Print", "Expression"}
    /\ stmts[i_next + 1][2][1] = "Assignment"

\* C11: an assignment to a name that is no key of the environment returns
\* an error and leaves the environment as it was, the name still absent; an
\* assignment to a name that is a key, bound or not, binds it to the value
\* of the right side and has that value as its own result (a Print of the
\* assignment writes it); in `a = b = c` both a and b get the value of c;
\* and `var a = 1; a = 2; print a;` writes 2.
C11_AssignmentNeverDeclares ==
    [][
     /\ AtAssignment =>
        LET st == stmts[i_next + 1]
            sym == st[2][2]
            rhs == st[2][3]
        IN  /\ (rhs[1] = "Literal" /\ sym.name \notin DOMAIN env) =>
                  (i_pc' = "err" /\ env' = env /\ output' = output)
            /\ (rhs[1] = "Literal" /\ sym.name \in DOMAIN env) =>
                  /\ i_pc' = "running"
                  /\ DOMAIN env' = DOMAIN env
                  /\ env'[sym.name] = Some(interpret_literal(rhs[2]))
                  /\ \A n \in DOMAIN env \ {sym.name} : env'[n] = env[n]
                  /\ output' = IF st[1] = "Print"
                               THEN Append(output, Display(interpret_literal(rhs[2])))
                               ELSE output
            /\ (/\ rhs[1] = "Assignment" /\ rhs[3][1] = "Variable"
                /\ {sym.name, rhs[2].name, rhs[3][2].name} \subseteq DOMAIN env
                /\ env[rhs[3][2].name] # None) =>
                  /\ i_pc' = "running"
                  /\ env'[sym.name] = env[rhs[3][2].name]
                  /\ env'[rhs[2].name] = env[rhs[3][2].name]
     /\ (/\ stmts = <<VarDeclStmt(<<"a">>, Some(Num(1))),
                       ExprStmt(Assign(<<"a">>, Num(2))),
                       PrintStmt(Var(<<"a">>))>>
         /\ i_pc = "running" /\ i_next = 2) =>
            (i_pc' = "running" /\ output' = << <<"2">> >>)
    ]_vars

\* `a = b = c` has run with a, b and c declared and c bound, and the Print
\* of a after it has written the value of c.
C11_Witness ==
    /\ Len(stmts) = 5
    /\ stmts[4] = ExprStmt(Assign(<<"a">>, Assign(<<"b">>, Var(<<"c">>))))
    /\ stmts[5] = PrintStmt(Var(<<"a">>))
    /\ i_pc = "ok"
    /\ output = << <<"3">> >>
    /\ env[<<"b">>] = Some(VNumber(FromInt(3)))

\* the index of the first `/` token, 0 when there is none
SlashAt ==
    IF \E i \in 1..Len(p_tokens) : p_tokens[i].token_type = "Slash"
    THEN CHOOSE i \in 1..Len(p_tokens) :
            /\ p_tokens[i].token_type = "Slash"
            /\ \A j \in 1..(i - 1) : p_tokens[j].token_type # "Slash"
    ELSE 0

\* the numbers left and right of that `/`
Dividend == p_tokens[SlashAt - 1].literal[1][2]

Divisor == p_tokens[SlashAt + 1].literal[1][2]

\* C12: a division of two numbers whose right operand is zero returns the
\* division-by-zero error with the line and column of the `/` token and no
\* Number (nothing is printed, nothing is bound); with any other right
\* operand it returns the Number l / r.
C12_DivisionByZeroIsError ==
    (SlashAt > 0 /\ interpret_ended) =>
        /\ Divisor = 0 =>
              /\ i_pc = "err"
              /\ i_err.what = "Can't divide by zero"
              /\ i_err.line = p_tokens[SlashAt].line
              /\ i_err.column = p_tokens[SlashAt].column
              /\ output = <<>>
              /\ env = EmptyEnv
        /\ Divisor # 0 =>
              /\ i_pc = "ok"
              /\ p_tokens[1].token_type = "Var" =>
                    /\ DOMAIN env = {<<"a">>}
                    /\ env[<<"a">>][1][1] = "Number"
                    /\ env[<<"a">>][1][2].n * Divisor = Dividend * env[<<"a">>][1][2].d
              /\ p_tokens[1].token_type = "Print" => Len(output) = 1
              /\ (p_tokens[1].token_type = "Print" /\ Dividend = 3 /\ Divisor = 2) =>
                    output = << <<"1", ".", "5">> >>

\* `var a = n / 0 ;` on line 2 has returned the error of the division.
C12_Witness ==
    /\ SlashAt = 5
    /\ Divisor = 0
    /\ p_tokens[SlashAt].line = 2
    /\ i_pc = "err"
    /\ i_err.column = 4

\* In `print o1 op1 o2 op2 ... ;` operand k is token 2k and operator k is
\* token 2k + 1.
ChainOps == (Len(p_tokens) - 4) \div 2

\* the level of operator k on the ladder equality < comparison < term < factor
LevelOf(k) ==
    LET t == p_tokens[2 * k + 1].token_type
    IN  CASE t \in {"EqualEqual", "BangEqual"} -> 1
          [] t \in {"Less", "LessEqual", "Greater", "GreaterEqual"} -> 2
          [] t \in {"Plus", "Minus"} -> 3
          [] OTHER -> 4

\* the operator node of operator k: its kind and the position of its token
OpNodeOf(k) ==
    LET tok == p_tokens[2 * k + 1]
        t == tok.token_type
    IN  [b_type |-> CASE t = "BangEqual" -> "NotEqual"
                      [] t = "Plus" -> "Add"
                      [] t = "Minus" -> "Sub"
                      [] t = "Star" -> "Mult"
                      [] t = "Slash" -> "Div"
                      [] OTHER -> t,
         line |-> tok.line, column |-> tok.column]

OperandNodeOf(k) == <<"Literal", <<"Number", p_tokens[2 * k].literal[1][2]>>>>

\* The tree the ladder fixes for operands lo..hi: the root is the last of
\* the operators of the lowest level among operators lo..hi-1.
RECURSIVE LadderTree(_, _)
LadderTree(lo, hi) ==
    IF lo = hi THEN OperandNodeOf(lo)
    ELSE LET lowest == CHOOSE l \in 1..4 :
                          /\ \E k \in lo..(hi - 1) : LevelOf(k) = l
                          /\ \A k \in lo..(hi - 1) : LevelOf(k) >= l
             root == CHOOSE k \in lo..(hi - 1) :
                        /\ LevelOf(k) = lowest
                        /\ \A j \in (k + 1)..(hi - 1) : LevelOf(j) # lowest
         IN  <<"Binary", LadderTree(lo, root), OpNodeOf(root), LadderTree(root + 1, hi)>>

\* the token kinds and numbers of `print 1 op1 2 op2 3 ;`
IsChain123(op1, op2) ==
    /\ ChainOps = 2
    /\ <<p_tokens[2].literal, p_tokens[4].literal, p_tokens[6].literal>>
          = <<Some(<<"Num", 1>>), Some(<<"Num", 2>>), Some(<<"Num", 3>>)>>
    /\ <<p_tokens[3].token_type, p_tokens[5].token_type>> = <<op1, op2>>

\* C13: a chain of binary operators without parentheses parses to the tree
\* of the precedence ladder, folding to the left within a level: in
\* `a op1 b op2 c` a tighter op2 gives Binary(a, op1, Binary(b, op2, c)),
\* otherwise Binary(Binary(a, op1, b), op2, c) is built; `1 + 2 * 3`
\* evaluates to 7 and `1 - 2 - 3` to -4.
C13_PrecedenceLadder ==
    /\ parse_ended =>
          /\ p_pc = "ok"
          /\ statements = <<PrintStmt(LadderTree(1, ChainOps + 1))>>
          /\ ChainOps = 2 =>
                statements[1][2] =
                    IF LevelOf(2) > LevelOf(1)
                    THEN <<"Binary", OperandNodeOf(1), OpNodeOf(1),
                           <<"Binary", OperandNodeOf(2), OpNodeOf(2), OperandNodeOf(3)>>>>
                    ELSE <<"Binary",
                           <<"Binary", OperandNodeOf(1), OpNodeOf(1), OperandNodeOf(2)>>,
                           OpNodeOf(2), OperandNodeOf(3)>>
    /\ (interpret_ended /\ IsChain123("Plus", "Star")) =>
          (i_pc = "ok" /\ output = << <<"7">> >>)
    /\ (interpret_ended /\ IsChain123("Minus", "Minus")) =>
          (i_pc = "ok" /\ output = << <<"-", "4">> >>)

\* `print 1 - 2 - 3 ;` has been parsed and run.
C13_Witness ==
    /\ IsChain123("Minus", "Minus")
    /\ p_pc = "ok"
    /\ i_pc = "ok"
    /\ output = << <<"-", "4">> >>

\* the only statement is a Print of `l op r` with l and r literals and op
\* one of == and !=
IsEqualityOfLiterals ==
    /\ Len(stmts) = 1
    /\ stmts[1][1] = "Print"
    /\ stmts[1][2][1] = "Binary"
    /\ stmts[1][2][2][1] = "Literal" /\ stmts[1][2][4][1] = "Literal"
    /\ stmts[1][2][3].b_type \in {"EqualEqual", "NotEqual"}

\* C14: for every pair of values, of one type or of two, `l == r` and
\* `l != r` both evaluate without error to the same Bool, the answer of
\* equals: false for every pair of different types, true for Null and Null.
C14_EqualAndNotEqualAgree ==
    (IsEqualityOfLiterals /\ interpret_ended) =>
        LET l == stmts[1][2][2][2]
            r == stmts[1][2][4][2]
            vl == interpret_literal(l)
            vr == interpret_literal(r)
        IN  /\ i_pc = "ok"
            /\ output = <<Display(VBool(l = r))>>
            /\ output = <<Display(VBool(equals(vl, vr)))>>
            /\ vl[1] # vr[1] => output = << <<"f", "a", "l", "s", "e">> >>
            /\ (vl = VNull /\ vr = VNull) => output = << <<"t", "r", "u", "e">> >>

\* `print 1 != 1;` has run and has written true.
C14_Witness ==
    /\ stmts = <<PrintStmt(Bin(Num(1), "NotEqual", Num(1)))>>
    /\ i_pc = "ok"
    /\ output = << <<"t", "r", "u", "e">> >>

\* the length of the run of digits of the source that starts at index i
RECURSIVE DigitRun(_)
DigitRun(i) ==
    IF i <= Len(source) /\ source[i] \in Digits THEN 1 + DigitRun(i + 1) ELSE 0

\* the source opens with digits, a `.` and at least one more digit
HasFraction ==
    /\ DigitRun(1) + 1 <= Len(source)
    /\ source[DigitRun(1) + 1] = "."
    /\ DigitRun(DigitRun(1) + 2) > 0

\* the number written by the four digits that end at position `last` of ds
\* (positions before the first count as zeros)
GroupValue(ds, last) ==
    LET at(i) == IF i >= 1 THEN to_digit(ds[i]) ELSE 0
    IN  at(last - 3) * 1000 + at(last - 2) * 100 + at(last - 1) * 10 + at(last)

\* The limbs of the decimal value of the digits ds: the groups of four digits
\* counted from the right.
DecimalLimbs(ds) ==
    [k \in 1..U64_LIMBS |-> GroupValue(ds, Len(ds) - 4 * (U64_LIMBS - k))]

\* the length of the number lexeme the source opens with
NumberLength ==
    IF HasFraction THEN DigitRun(1) + 1 + DigitRun(DigitRun(1) + 2)
    ELSE DigitRun(1)

\* C15: a maximal run of digits is one number token: a Float over the
\* digits, the `.` and the digits after it when a `.` and a digit follow,
\* otherwise an Int over the run, with a following `.` left to be scanned as
\* a Dot; a source that is one such lexeme scans to Ok with that one token
\* and Eof, and `d.` scans to Int, Dot, Eof.
C15_NumberClassification ==
    (DigitRun(1) > 0 /\ current > 0) =>
        /\ Len(tokens) >= 1
        /\ tokens[1].token_type = (IF HasFraction THEN "Float" ELSE "Int")
        /\ tokens[1].lexeme = SubSeq(source, 1, NumberLength)
        /\ tokens[1].literal =
              Some(<<tokens[1].token_type,
                     IF HasFraction THEN SubSeq(source, 1, NumberLength)
                     ELSE DecimalLimbs(SubSeq(source, 1, NumberLength))>>)
        /\ current >= NumberLength
        /\ (/\ ~HasFraction /\ NumberLength < Len(source)
            /\ source[NumberLength + 1] = "." /\ Len(tokens) >= 2) =>
              (tokens[2].token_type = "Dot" /\ tokens[2].lexeme = <<".">>)
        /\ (scan_ended /\ NumberLength = Len(source)) =>
              /\ scan_is_ok
              /\ TokenKinds(tokens) = <<IF HasFraction THEN "Float" ELSE "Int", "Eof">>
        /\ (scan_ended /\ ~HasFraction /\ NumberLength + 1 = Len(source)
               /\ source[Len(source)] = ".") =>
              /\ scan_is_ok
              /\ TokenKinds(tokens) = <<"Int", "Dot", "Eof">>

\* `1.1.` has been scanned: one Float, then the second `.` as a Dot.
C15_Witness ==
    /\ source = <<"1", ".", "1", ".">>
    /\ s_pc = "done"
    /\ TokenKinds(tokens) = <<"Float", "Dot", "Eof">>
    /\ tokens[1].lexeme = <<"1", ".", "1">>

\* the characters of Alphabet that are no punctuation, no operator, no white
\* space, no quote and no digit
InvalidCharacters == {"o", "r", "x", "@", "\\"}

InvalidAt == {i \in 1..Len(source) : source[i] \in InvalidCharacters}

\* the line a character of the source stands on
LineOfChar(i) == 1 + Cardinality({j \in 1..(i - 1) : source[j] = "\n"})

\* C16: when the source holds a character that is no punctuation, operator,
\* white space, quote or digit, scan returns Err, never Ok and never a
\* panic; the error carries such a character of the source with its line
\* (and, on the first line, its column); the input is consumed to its end.
C16_InvalidCharacterIsError ==
    (InvalidAt # {} /\ scan_ended) =>
        /\ scan_is_err
        /\ current = Len(source)
        /\ \E i \in InvalidAt :
              /\ err[1].ch = source[i]
              /\ err[1].line = LineOfChar(i)
              /\ LineOfChar(i) = 1 => err[1].column = i - 1

\* C17: when the scan has run to completion the token sequence holds exactly
\* one Eof token, the last one, with an empty lexeme, no literal and the
\* line and column the scanner ended at (the line is one more than the
\* number of newlines of the source); until then it holds no Eof token.
C17_ExactlyOneEofLast ==
    /\ s_pc = "done" =>
          /\ Len(tokens) >= 1
          /\ tokens[Len(tokens)] =
                [token_type |-> "Eof", lexeme |-> <<>>, literal |-> None,
                 line |-> line, column |-> column]
          /\ Cardinality({i \in 1..Len(tokens) : tokens[i].token_type = "Eof"}) = 1
          /\ line = 1 + Cardinality({j \in 1..Len(source) : source[j] = "\n"})
    /\ s_pc \in {"scanning", "panic"} =>
          \A i \in 1..Len(tokens) : tokens[i].token_type # "Eof"

\* A source of two lines with a token on each has been scanned to its end.
C17_Witness ==
    /\ s_pc = "done"
    /\ line = 2
    /\ Len(tokens) = 3
    /\ tokens[1].line = 1
    /\ tokens[2].line = 2
    /\ tokens[3].token_type = "Eof"

\* the expression with every Grouping node replaced by what it holds
RECURSIVE Ungrouped(_)
Ungrouped(expr) ==
    CASE expr[1] = "Grouping" -> Ungrouped(expr[2])
      [] expr[1] = "Unary" -> <<"Unary", expr[2], Ungrouped(expr[3])>>
      [] expr[1] = "Binary" ->
            <<"Binary", Ungrouped(expr[2]), expr[3], Ungrouped(expr[4])>>
      [] expr[1] = "Assignment" -> <<"Assignment", expr[2], Ungrouped(expr[3])>>
      [] OTHER -> expr

UngroupedStmt(stmt) ==
    IF stmt[1] = "VarDeclaration"
    THEN <<"VarDeclaration", stmt[2],
           IF stmt[3] = None THEN None ELSE Some(Ungrouped(stmt[3][1]))>>
    ELSE <<stmt[1], Ungrouped(stmt[2])>>

\* C18: Grouping(e) evaluates as e does: a statement with groupings ends as
\* the same statement without them ends from the same environment: the same
\* lines written, the same error or panic, the same environment after. So
\* `print (1);` writes 1 and `(a = 2);` binds a declared a to 2.
C18_GroupingIsTransparent ==
    [][(/\ i_pc = "running"
        /\ i_next < Len(stmts)
        /\ UngroupedStmt(stmts[i_next + 1]) # stmts[i_next + 1]) =>
          LET stmt == stmts[i_next + 1]
              plain == execute(env, output, UngroupedStmt(stmt))
          IN  /\ env' = plain.env
              /\ output' = plain.output
              /\ i_err' = plain.err
              /\ i_pc' = after_execute(plain.kind)
              /\ stmt = PrintStmt(Group(Num(1))) =>
                    (i_pc' = "running" /\ output' = Append(output, <<"1">>))
              /\ (stmt = ExprStmt(Group(Assign(<<"a">>, Num(2))))
                     /\ <<"a">> \in DOMAIN env) =>
                    (i_pc' = "running"
                       /\ env' = [env EXCEPT ![<<"a">>] = Some(VNumber(FromInt(2)))])
    ]_vars

\* `var a; (a = 2);` has run: the grouped assignment has bound a.
C18_Witness ==
    /\ stmts = <<VarDeclStmt(<<"a">>, None), ExprStmt(Group(Assign(<<"a">>, Num(2))))>>
    /\ i_pc = "ok"
    /\ env[<<"a">>] = Some(VNumber(FromInt(2)))

\* the keywords that start a declaration or a statement, and `return`
ResumeKeywords == {"Class", "Func", "Var", "If", "For", "While", "Print", "Return"}

\* the cursor stands where parsing could resume
AtBoundary ==
    \/ Parser_is_at_end(p_current)
    \/ p_current >= 1 /\ previous(p_current).token_type = "Semicolon"
    \/ Parser_peek(p_current).token_type \in ResumeKeywords

\* C19: synchronize first advances past the offending token, then advances
\* only until the token just passed is `;`, or the next token is one of
\* class, func, var, if, for, while, print, return, or the cursor is at Eof,
\* and returns with the cursor there: it never moves the cursor off such a
\* place, and it returns for every token sequence without a panic.
C19_SynchronizeStopsAtBoundary ==
    /\ [](p_pc # "panic")
    /\ [](p_pc = "synchronized" => AtBoundary)
    /\ [][/\ p_pc = "synchronize" =>
               p_current' = IF Parser_is_at_end(p_current)
                            THEN p_current ELSE p_current + 1
          /\ (p_pc = "synchronizing" /\ AtBoundary) =>
               (p_pc' = "synchronized" /\ p_current' = p_current)
          /\ (p_pc = "synchronizing" /\ ~AtBoundary) =>
               (p_pc' = "synchronizing" /\ p_current' = p_current + 1)
         ]_vars

\* C20: parse terminates for every token sequence that ends in Eof: a call
\* of declaration that returns Ok has moved the cursor forward by at least
\* one token; the cursor never moves back and never passes the Eof token;
\* when the loop ends with Ok the cursor is at Eof, and parse never returns
\* UnexpectedToken.
C20_ParseTerminates ==
    /\ [][(p_pc = "parsing" /\ Len(statements') > Len(statements)) =>
             p_current' > p_current]_vars
    /\ [][p_current' >= p_current]_vars
    /\ [](p_current + 1 <= Len(p_tokens))
    /\ [](p_pc = "ok" => Parser_is_at_end(p_current))
    /\ [](p_err.kind # "UnexpectedToken")
    /\ <>parse_ended

\* parse has returned Ok with two statements, the cursor on the Eof token.
C20_Witness ==
    /\ p_pc = "ok"
    /\ Len(statements) = 2
    /\ p_current = Len(p_tokens) - 1
    /\ p_current = 4

\* ---- C21

\* The decimal value of the source as a u64; no u64 has the value when a
\* digit other than zero stands left of the last twenty.
DecimalValue == DecimalLimbs(source)

FitsTwentyDigits ==
    \A i \in 1..(Len(source) - 4 * U64_LIMBS) : source[i] = "0"

\* C21: converting a run of digits to u64 cannot fail: for a source that is
\* one run of digits, of any length, the scan never panics and ends with one
\* Int token whose value is the decimal value of the run, then Eof.
C21_IntegerParseCannotFail ==
    /\ s_pc # "panic"
    /\ s_pc = "done" =>
        /\ err = None
        /\ TokenKinds(tokens) = <<"Int", "Eof">>
        /\ tokens[1].lexeme = source
        /\ FitsTwentyDigits
        /\ tokens[1].literal = Some(<<"Int", DecimalValue>>)

\* ---- C22

\* this step is the execution of a statement that ends in a runtime error
StatementFails == i_pc = "running" /\ i_pc' = "err"

\* the statement being executed
CurrentStmt == stmts[i_next + 1]

\* the expression of a statement, if it has one
ExprsOf(stmt) ==
    IF stmt[1] = "VarDeclaration"
    THEN (IF stmt[3] = None THEN {} ELSE {stmt[3][1]})
    ELSE {stmt[2]}

\* the names that the Assignment nodes of an expression assign to
RECURSIVE AssignTargets(_)
AssignTargets(expr) ==
    CASE expr[1] = "Assignment" -> {expr[2].name} \cup AssignTargets(expr[3])
      [] expr[1] = "Grouping" -> AssignTargets(expr[2])
      [] expr[1] = "Unary" -> AssignTargets(expr[3])
      [] expr[1] = "Binary" -> AssignTargets(expr[2]) \cup AssignTargets(expr[4])
      [] OTHER -> {}

\* C22 as stated: a statement whose execution ends in a runtime error leaves
\* the environment exactly as it was before the statement began, also when
\* assignments nested in it were evaluated before the error arose.
C22_FailedStatementLeavesEnv ==
    [][StatementFails => env' = env]_vars

\* C22 as amended: a statement whose execution ends in a runtime error adds
\* no binding and changes no binding but those of names an assignment nested
\* in the statement assigns to; a nested assignment evaluated before the
\* error arose keeps its effect: `b = (a = 2);` with a declared and b not
\* leaves a bound to 2 and b undeclared, and a VarDeclaration whose
\* initializer fails after `a = 2` leaves a bound to 2 and declares nothing.
C22_FailedStatementKeepsNestedAssignments ==
    [][StatementFails =>
        /\ DOMAIN env' = DOMAIN env
        /\ \A name \in DOMAIN env :
               env'[name] # env[name] =>
                   \E expr \in ExprsOf(CurrentStmt) : name \in AssignTargets(expr)
        /\ (/\ CurrentStmt = ExprStmt(Assign(<<"b">>, Group(Assign(<<"a">>, Num(2)))))
            /\ <<"a">> \in DOMAIN env) =>
               env' = [env EXCEPT ![<<"a">>] = Some(VNumber(FromInt(2)))]
        /\ (/\ CurrentStmt[1] = "VarDeclaration"
            /\ CurrentStmt[2].name = <<"d">>
            /\ <<"a">> \in DOMAIN env) =>
               env' = [env EXCEPT ![<<"a">>] = Some(VNumber(FromInt(2)))]
      ]_vars

\* `var a = 1; b = (a = 2);` has ended in the error of the assignment to b,
\* with a bound to 2 by the nested assignment and b not declared.
C22_Witness ==
    /\ stmts = <<VarDeclStmt(<<"a">>, Some(Num(1))),
                 ExprStmt(Assign(<<"b">>, Group(Assign(<<"a">>, Num(2)))))>>
    /\ i_pc = "err"
    /\ i_err.what = "attempted to assign to an undefined variable"
    /\ env = (<<"a">> :> Some(VNumber(FromInt(2))))

\* ---- C23

\* Every Binary node met while expr is evaluated from the environment e
\* yields what its operands yield taken left first: the left operand's
\* outcome when that is no value (the right operand is then not evaluated),
\* else the outcome of the right operand evaluated in the environment the left
\* one left when that is no value, else the operator applied to both values.
RECURSIVE EvaluatedInOrder(_, _)
EvaluatedInOrder(e, expr) ==
    CASE expr[1] = "Binary" ->
            LET whole == interpret_expr(e, expr)
                l == interpret_expr(e, expr[2])
                r == interpret_expr(l.env, expr[4])
            IN  /\ EvaluatedInOrder(e, expr[2])
                /\ IF l.kind # "ok" THEN whole = l
                   ELSE /\ EvaluatedInOrder(l.env, expr[4])
                        /\ IF r.kind # "ok" THEN whole = r
                           ELSE whole = binary_match(l.val, expr[3], r.val, r.env)
      [] expr[1] = "Assignment" -> EvaluatedInOrder(e, expr[3])
      [] expr[1] = "Grouping" -> EvaluatedInOrder(e, expr[2])
      [] expr[1] = "Unary" -> EvaluatedInOrder(e, expr[3])
      [] OTHER -> TRUE

\* this step executes a Print of a Binary node
PrintsBinary ==
    /\ i_pc = "running"
    /\ i_next < Len(stmts)
    /\ CurrentStmt[1] = "Print"
    /\ CurrentStmt[2][1] = "Binary"

\* the statement being executed is `print left op right;`
PrintsBinaryOf(left, op, right) ==
    PrintsBinary /\ CurrentStmt = PrintStmt(Bin(left, op, right))

\* C23: in every Binary node the left operand is evaluated before the right
\* one and both before the operator is applied; when the left operand yields
\* an error the right operand is not evaluated, no assignment inside it takes
\* effect, and the error returned is the left operand's.
C23_LeftBeforeRight ==
    [][PrintsBinary =>
        LET left == CurrentStmt[2][2]
            right == CurrentStmt[2][4]
            l == interpret_expr(env, left)
            r == interpret_expr(l.env, right)
        IN  /\ EvaluatedInOrder(env, CurrentStmt[2])
            \* the left operand fails: its error, and nothing of the right one
            /\ l.kind = "err" =>
                /\ i_pc' = "err"
                /\ i_err' = l.err
                /\ env' = l.env
                /\ output' = output
                /\ \A name \in DOMAIN env :
                       name \notin AssignTargets(left) => env'[name] = env[name]
            \* the right operand starts from what the left one left
            /\ (l.kind = "ok" /\ r.kind = "err") =>
                /\ i_pc' = "err"
                /\ i_err' = r.err
                /\ env' = r.env
            \* the operator comes last, after the effects of both operands
            /\ (l.kind = "ok" /\ r.kind = "ok") => env' = r.env
            /\ PrintsBinaryOf(Assign(<<"a">>, Num(2)), "Add", Var(<<"a">>)) =>
                (<<"a">> \in DOMAIN env => output' = Append(output, <<"4">>))
            /\ PrintsBinaryOf(Var(<<"a">>), "Add", Assign(<<"a">>, Num(2))) =>
                (env = (<<"a">> :> Some(VNumber(FromInt(1)))) =>
                    /\ output' = Append(output, <<"3">>)
                    /\ env' = (<<"a">> :> Some(VNumber(FromInt(2)))))
            /\ PrintsBinaryOf(Var(<<"b">>), "Add", Assign(<<"a">>, Num(2))) =>
                /\ i_pc' = "err"
                /\ i_err' = RuntimeError("Undefined variable", <<"b">>, 0, 0)
                /\ env' = env
            /\ PrintsBinaryOf(Var(<<"b">>), "Div", Bin(Num(1), "Div", Num(0))) =>
                i_err' = RuntimeError("Undefined variable", <<"b">>, 0, 0)
            /\ PrintsBinaryOf(Num(1), "Div", Assign(<<"c">>, Num(0))) =>
                (<<"c">> \in DOMAIN env =>
                    /\ i_err'.what = "Can't divide by zero"
                    /\ env' = [env EXCEPT ![<<"c">>] = Some(VNumber(FromInt(0)))])
      ]_vars

\* `var a = 1; print b + (a = 2);` has ended in the error of the left
\* operand, the read of b, and a is still 1.
C23_Witness ==
    /\ stmts = <<VarDeclStmt(<<"a">>, Some(Num(1))),
                 PrintStmt(Bin(Var(<<"b">>), "Add", Assign(<<"a">>, Num(2))))>>
    /\ i_pc = "err"
    /\ i_err = RuntimeError("Undefined variable", <<"b">>, 0, 0)
    /\ env = (<<"a">> :> Some(VNumber(FromInt(1))))

====
